---------------------------- MODULE Spec2Model ----------------------------
(***************************************************************************)
(* Model of dynamodb-user-manager's shadow database subsystem:             *)
(* ShadowDatabaseLock (global lckpwdf lock plus per-file pidlocks),        *)
(* ShadowDatabase.reload / write (loaders, ShadowWriter staging, rotation) *)
(* as found in src/dynamodbusermanager/shadow.py.                          *)
(*                                                                         *)
(* Process 1 is the daemon: it owns a ShadowDatabase and calls reload()    *)
(* and write().  Process 2 is a cooperating utility that runs              *)
(* "with ShadowDatabaseLock(timeout=t): pass".  Pid 3 is a process that    *)
(* died and may have left a <file>.lock behind.                            *)
(***************************************************************************)
EXTENDS Integers, Sequences, FiniteSets, TLC

\* ------------------------------------------------------------------ bounds

\* The attempt and sleep counters of one _lock_file call saturate here (the
\* retry loop with timeout None is unbounded).
MaxCount == 2

\* The daemon starts at most MaxOps operations (reload, an insertion by its
\* caller, write), the utility at most MaxScopes with-statements.
MaxOps == 3

MaxScopes == 2

\* ------------------------------------------------------------- environment

Procs == {1, 2}
Daemon == CHOOSE p \in Procs : \A q \in Procs : p <= q
Utility == CHOOSE p \in Procs : p # Daemon
DeadPids == {3}

\* A live process that is not this program, such as a shadow utility: it
\* takes <file>.lock by the same link protocol, without lckpwdf().
HolderPids == {4}

\* kill(pid, 0) succeeds for these.
AlivePids == Procs \cup HolderPids

Budget(p) == IF p = Daemon THEN MaxOps ELSE MaxScopes

\* timeout=None of ShadowDatabaseLock.__init__; like a negative timeout it
\* means "wait forever" (shadow.py 590-591, 765-768).
NONE == -1

Timeouts == {NONE, 0}

\* The timeouts the lock-only runs pass: None, a negative one, 0 and a
\* positive one.  Time is counted in units of initial_sleep_time (0.1 s), the
\* shortest sleep of _lock_file.
LockTimeouts == {NONE, -2, 0, 1}

\* ShadowDatabaseLock._lock_order with items = LOCK_ALL: every entry passes
\* the "self.items & item" test.
lock_order == <<"passwd", "group", "gshadow", "shadow">>

FileNames == {lock_order[i] : i \in 1..Len(lock_order)}

\* ------------------------------------------------------------- text <-> int

\* str(n) for the small numbers that occur (pids, ids, day counts).
Numerals == <<"0", "1", "2", "3", "4", "5", "6", "7", "8", "9">>

NumStr(n) == Numerals[n + 1]

\* int(s) succeeds exactly on the numerals.
IsInt(s) == \E n \in 0..9 : Numerals[n + 1] = s

IntOf(s) == CHOOSE n \in 0..9 : Numerals[n + 1] = s

\* --------------------------------------------------------------- files

\* A lock file <file>.lock: absent, or present with its text.
NoLock == [ex |-> FALSE, text |-> ""]

LockText(t) == [ex |-> TRUE, text |-> t]

\* An account file: absent, or present with its lines; a line is the
\* sequence of its colon-separated fields.
NoFile == [ex |-> FALSE, lines |-> <<>>]

File(ls) == [ex |-> TRUE, lines |-> ls]

\* int(fd.read()) on a whole account file: it parses only when the file is a
\* single line holding a single numeric field.
FileIsInt(file) ==
    /\ Len(file.lines) = 1
    /\ Len(file.lines[1]) = 1
    /\ IsInt(file.lines[1][1])

FileInt(file) == IntOf(file.lines[1][1])

\* ------------------------------------------------------------------ records

\* None of an Optional[str] attribute (NONE is None of an Optional[int] or
\* Optional[date] attribute; a date is held as its day number since EPOCH).
NoneStr == "None"

UID_MIN == 0

\* 2**32 - 1 in constants.py; held here as the largest integer TLC
\* represents.  Every id of the model is a single digit, far below both.
UID_MAX == 2147483647

GID_MIN == 0

\* 2**32 - 1 in constants.py, held like UID_MAX.
GID_MAX == 2147483647

\* Texts that NAME_PATTERN matches, in the order sorted() gives them.
NameOrder == Numerals \o <<"a", "b", "c">>

NameTexts == {NameOrder[i] : i \in 1..Len(NameOrder)}

\* Position of a name in sorted order.
NamePos(n) == CHOOSE i \in 1..Len(NameOrder) : NameOrder[i] = n

\* NAME_PATTERN.match(s)
NAME_PATTERN_match(s) == s \in NameTexts

\* A field text holding a vertical tab.
BadFieldTexts == {"^K"}

\* Fault injection: a FIELD_PATTERN that accepts every text.
FIELD_PATTERN_any(s) == TRUE

\* FIELD_PATTERN.match(s)
FIELD_PATTERN_match(s) == s \notin BadFieldTexts

\* FIELD_FIX.sub("-", s) of a text FIELD_PATTERN rejects
FIELD_FIX_sub(s) == "-"

\* NUMERIC_FIELD_PATTERN is re_compile("r[+-]?[0-9]*$"): match() anchors at
\* the start, so only texts beginning with the letter r match.
NUMERIC_FIELD_PATTERN_match(s) == s \in {"r", "r1"}

\* User.__init__ with the shadow attributes at their defaults.
User(user_name, uid, gid, real_name, home, shell, modified) ==
    [user_name |-> user_name, uid |-> uid, gid |-> gid,
     real_name |-> real_name, home |-> home, shell |-> shell,
     password |-> NoneStr,
     last_password_change_date |-> NONE,
     password_age_min_days |-> NONE,
     password_age_max_days |-> NONE,
     password_warn_days |-> NONE,
     password_disable_days |-> NONE,
     account_expire_date |-> NONE,
     modified |-> modified]

\* Group.__init__ with administrators and password at their defaults.
Group(group_name, gid, members, modified) ==
    [group_name |-> group_name, gid |-> gid, administrators |-> {},
     members |-> members, password |-> NoneStr, modified |-> modified]

Range(seq) == {seq[i] : i \in 1..Len(seq)}

\* Position of the key in a dict held in insertion order, 0 when absent.
UserIndex(us, name) ==
    IF \E i \in 1..Len(us) : us[i].user_name = name
      THEN CHOOSE i \in 1..Len(us) : us[i].user_name = name
      ELSE 0

GroupIndex(gs, name) ==
    IF \E i \in 1..Len(gs) : gs[i].group_name = name
      THEN CHOOSE i \in 1..Len(gs) : gs[i].group_name = name
      ELSE 0

\* The keys of a map the loaders filled: self.users[user_name] =
\* User(user_name=user_name, ...) stores a record under the name it is built
\* with (f is "user_name" or "group_name").
StoredKeys(recs, f) == [i \in 1..Len(recs) |-> recs[i][f]]

\* self.shadow.users.get(username): the position of the key, 0 when absent.
KeyIndex(keys, name) ==
    IF \E i \in 1..Len(keys) : keys[i] = name
      THEN CHOOSE i \in 1..Len(keys) : keys[i] = name
      ELSE 0

\* self.users[user_name] = user: a new key goes last, an old key keeps its
\* place.
PutUser(us, u) ==
    IF UserIndex(us, u.user_name) = 0
      THEN Append(us, u)
      ELSE [us EXCEPT ![UserIndex(us, u.user_name)] = u]

PutGroup(gs, g) ==
    IF GroupIndex(gs, g.group_name) = 0
      THEN Append(gs, g)
      ELSE [gs EXCEPT ![GroupIndex(gs, g.group_name)] = g]

\* ------------------------------------------------------------------ loaders

\* int(s) with the range check of a uid or gid field.
ValidId(s, lo, hi) == IsInt(s) /\ lo <= IntOf(s) /\ IntOf(s) <= hi

\* s.split(",") of a comma-separated field, held as the sequence of its
\* items: the empty text splits into one empty item.
Split(csv) == IF csv = <<>> THEN <<"">> ELSE csv

\* FIELD_PATTERN.match on a comma-separated field.
CsvFieldOk(csv) == \A i \in 1..Len(csv) : FIELD_PATTERN_match(csv[i])

\* _load_passwd_file, one line.
load_passwd_line(us, parts) ==
    IF parts = <<"">> THEN us
    ELSE IF Len(parts) # 7 THEN us
    ELSE IF ~NAME_PATTERN_match(parts[1]) THEN us
    ELSE IF ~ValidId(parts[3], UID_MIN, UID_MAX) THEN us
    ELSE IF ~ValidId(parts[4], GID_MIN, GID_MAX) THEN us
    ELSE LET real_name == IF FIELD_PATTERN_match(parts[5])
                            THEN parts[5] ELSE FIELD_FIX_sub(parts[5])
             home == IF FIELD_PATTERN_match(parts[6]) THEN parts[6] ELSE "/"
             shell == IF FIELD_PATTERN_match(parts[7])
                        THEN parts[7] ELSE "/bin/false"
             modified == ~FIELD_PATTERN_match(parts[6])
                           \/ ~FIELD_PATTERN_match(parts[7])
         IN PutUser(us, User(parts[1], IntOf(parts[3]), IntOf(parts[4]),
                             real_name, home, shell, modified))

RECURSIVE load_passwd_file(_, _)
load_passwd_file(us, lines) ==
    IF lines = <<>> THEN us
    ELSE load_passwd_file(load_passwd_line(us, Head(lines)), Tail(lines))

\* _load_group_file, one line.
load_group_line(gs, parts) ==
    IF parts = <<"">> THEN gs
    ELSE IF Len(parts) # 4 THEN gs
    ELSE IF ~NAME_PATTERN_match(parts[1]) THEN gs
    ELSE IF ~ValidId(parts[3], GID_MIN, GID_MAX) THEN gs
    ELSE IF ~CsvFieldOk(parts[4])
      THEN PutGroup(gs, Group(parts[1], IntOf(parts[3]), {}, TRUE))
      ELSE PutGroup(gs, Group(parts[1], IntOf(parts[3]),
                              {m \in Range(Split(parts[4])) :
                                   NAME_PATTERN_match(m)}, FALSE))

RECURSIVE load_group_file(_, _)
load_group_file(gs, lines) ==
    IF lines = <<>> THEN gs
    ELSE load_group_file(load_group_line(gs, Head(lines)), Tail(lines))

\* _load_gshadow_file, one line.  The password is assigned only when it has
\* a bad character; group.members is a copy, so members.update() on it does
\* not reach the group.
load_gshadow_line(gs, parts) ==
    IF parts = <<"">> THEN gs
    ELSE IF Len(parts) # 4 THEN gs
    ELSE IF GroupIndex(gs, parts[1]) = 0 THEN gs
    ELSE LET i == GroupIndex(gs, parts[1])
             g0 == gs[i]
             g1 == IF ~FIELD_PATTERN_match(parts[2])
                     THEN [g0 EXCEPT !.password = "!", !.modified = TRUE]
                     ELSE g0
             admins == Range(Split(parts[3]))
             filtered_admins == {a \in admins : NAME_PATTERN_match(a)}
             g2 == IF ~CsvFieldOk(parts[3])
                     THEN [g1 EXCEPT !.administrators = {},
                                     !.modified = TRUE]
                   ELSE IF parts[3] = <<>>
                     THEN [g1 EXCEPT !.administrators = {}]
                   ELSE [g1 EXCEPT !.administrators = filtered_admins,
                                   !.modified = IF admins # filtered_admins
                                                  THEN TRUE ELSE @]
             members == {m \in Range(Split(parts[4])) : NAME_PATTERN_match(m)}
             g3 == IF ~CsvFieldOk(parts[4]) THEN g2
                   ELSE IF parts[4] = <<>>
                     THEN [g2 EXCEPT !.members = {}]
                   ELSE IF members # g2.members
                     THEN [g2 EXCEPT !.modified = TRUE]
                   ELSE g2
         IN [gs EXCEPT ![i] = g3]

RECURSIVE load_gshadow_file(_, _)
load_gshadow_file(gs, lines) ==
    IF lines = <<>> THEN gs
    ELSE load_gshadow_file(load_gshadow_line(gs, Head(lines)), Tail(lines))

\* The six numeric attributes _load_shadow_file assigns, from parts[2:8].
shadow_fields ==
    <<"last_password_change_date", "password_age_min_days",
      "password_age_max_days", "password_warn_days",
      "password_disable_days", "account_expire_date">>

\* _load_shadow_file, the numeric fields of one line from the i-th on: a text
\* NUMERIC_FIELD_PATTERN rejects becomes None and marks the user modified,
\* one it accepts goes to int(), whose ValueError ends the load.
RECURSIVE load_shadow_fields(_, _, _)
load_shadow_fields(u, parts, i) ==
    IF i > Len(shadow_fields) THEN [err |-> "", u |-> u]
    ELSE IF ~NUMERIC_FIELD_PATTERN_match(parts[i + 2])
      THEN load_shadow_fields(
               [u EXCEPT ![shadow_fields[i]] = NONE, !.modified = TRUE],
               parts, i + 1)
    ELSE IF ~IsInt(parts[i + 2]) THEN [err |-> "ValueError", u |-> u]
    ELSE load_shadow_fields(
             [u EXCEPT ![shadow_fields[i]] = IntOf(parts[i + 2])],
             parts, i + 1)

\* _load_shadow_file, one line.  The password is assigned only when it has a
\* bad character.
load_shadow_line(us, parts) ==
    IF parts = <<"">> THEN [err |-> "", users |-> us]
    ELSE IF ~(8 <= Len(parts) /\ Len(parts) <= 9)
      THEN [err |-> "", users |-> us]
    ELSE IF UserIndex(us, parts[1]) = 0 THEN [err |-> "", users |-> us]
    ELSE LET i == UserIndex(us, parts[1])
             u1 == IF ~FIELD_PATTERN_match(parts[2])
                     THEN [us[i] EXCEPT !.password = "!", !.modified = TRUE]
                     ELSE us[i]
             r == load_shadow_fields(u1, parts, 1)
         IN [err |-> r.err, users |-> [us EXCEPT ![i] = r.u]]

RECURSIVE load_shadow_file(_, _)
load_shadow_file(us, lines) ==
    IF lines = <<>> THEN [err |-> "", users |-> us]
    ELSE LET r == load_shadow_line(us, Head(lines)) IN
         IF r.err # "" THEN r ELSE load_shadow_file(r.users, Tail(lines))

\* ------------------------------------------------- loaders: what they log

GSHADOW_FILE == "/etc/gshadow"

SHADOW_FILE == "/etc/shadow"

\* One call of log.warning / log.error in the gshadow or shadow loader: the
\* format (with the field name some formats end in), its str and int
\* arguments, and line_no at the call.
LogRecord(level, msg, strs, ints, line_no) ==
    [level |-> level, msg |-> msg, strs |-> strs, ints |-> ints,
     line_no |-> line_no]

\* Fault injection: the password is among the arguments of the diagnostic.
LeakPassword(file, text, line_no, password) ==
    LogRecord("WARNING", text, <<file, password>>, <<line_no>>, line_no)

\* log.warning("%s:%d: Bad character in password", file, line_no)
BadPassword(file, text, line_no, password) ==
    LogRecord("WARNING", text, <<file>>, <<line_no>>, line_no)

\* What _load_gshadow_file logs for one line.
gshadow_line_log(gs, parts, line_no) ==
    IF parts = <<"">> THEN <<>>
    ELSE IF Len(parts) # 4
      THEN << LogRecord("WARNING", <<"Invalid gshadow entry (line %d)">>,
                        <<>>, <<line_no + 1>>, line_no) >>
    ELSE IF GroupIndex(gs, parts[1]) = 0
      THEN << LogRecord("ERROR", <<"%s:%d: Unknown group">>,
                        <<GSHADOW_FILE>>, <<line_no>>, line_no) >>
    ELSE LET group == gs[GroupIndex(gs, parts[1])]
             admins == Range(Split(parts[3]))
             members == Range(Split(parts[4]))
             filtered_members == {a \in members : NAME_PATTERN_match(a)}
             Warn(text) == LogRecord("WARNING", text, <<GSHADOW_FILE>>,
                                     <<line_no>>, line_no)
         IN (IF ~FIELD_PATTERN_match(parts[2])
               THEN << BadPassword(GSHADOW_FILE,
                                   <<"%s:%d: Bad character in password">>,
                                   line_no, parts[2]) >>
               ELSE <<>>)
            \o (IF ~CsvFieldOk(parts[3])
                     \/ (parts[3] # <<>>
                           /\ \E a \in admins : ~NAME_PATTERN_match(a))
                  THEN << Warn(<<"%s:%d: Bad character in administrators">>) >>
                  ELSE <<>>)
            \o (IF ~CsvFieldOk(parts[4])
                  THEN << Warn(<<"%s:%d: Bad character in members">>) >>
                ELSE IF parts[4] = <<>> THEN <<>>
                ELSE (IF members # filtered_members
                        THEN << Warn(<<"%s:%d: Bad character in members">>) >>
                        ELSE <<>>)
                     \o (IF filtered_members # group.members
                           THEN << Warn(<<"%s:%d: Inconsistent group membership in gshadow and group file">>) >>
                           ELSE <<>>))

RECURSIVE gshadow_file_log(_, _, _)
gshadow_file_log(gs, lines, line_no) ==
    IF lines = <<>> THEN <<>>
    ELSE gshadow_line_log(gs, Head(lines), line_no)
         \o gshadow_file_log(load_gshadow_line(gs, Head(lines)), Tail(lines),
                             line_no + 1)

\* What _load_shadow_file logs for the numeric fields of one line from the
\* i-th on, up to the field whose int() raises.
RECURSIVE shadow_fields_log(_, _, _)
shadow_fields_log(parts, i, line_no) ==
    IF i > Len(shadow_fields) THEN <<>>
    ELSE IF ~NUMERIC_FIELD_PATTERN_match(parts[i + 2])
      THEN << LogRecord("WARNING",
                        <<"%s:%d Bad character in", shadow_fields[i]>>,
                        <<SHADOW_FILE>>, <<line_no>>, line_no) >>
           \o shadow_fields_log(parts, i + 1, line_no)
    ELSE IF ~IsInt(parts[i + 2]) THEN <<>>
    ELSE shadow_fields_log(parts, i + 1, line_no)

\* What _load_shadow_file logs for one line.
shadow_line_log(us, parts, line_no) ==
    IF parts = <<"">> THEN <<>>
    ELSE IF ~(8 <= Len(parts) /\ Len(parts) <= 9)
      THEN << LogRecord("WARNING", <<"Invalid shadow entry (line %d)">>,
                        <<>>, <<line_no + 1>>, line_no) >>
    ELSE IF UserIndex(us, parts[1]) = 0
      THEN << LogRecord("ERROR", <<"%s:%d: Unknown user">>,
                        <<SHADOW_FILE>>, <<line_no>>, line_no) >>
    ELSE (IF ~FIELD_PATTERN_match(parts[2])
            THEN << BadPassword(SHADOW_FILE,
                                <<"%s:%d: Bad character in password">>,
                                line_no, parts[2]) >>
            ELSE <<>>)
         \o shadow_fields_log(parts, 1, line_no)

RECURSIVE shadow_file_log(_, _, _)
shadow_file_log(us, lines, line_no) ==
    IF lines = <<>> THEN <<>>
    ELSE LET r == load_shadow_line(us, Head(lines)) IN
         shadow_line_log(us, Head(lines), line_no)
         \o (IF r.err # "" THEN <<>>
             ELSE shadow_file_log(r.users, Tail(lines), line_no + 1))

\* ------------------------------------------------------------------ writers

\* str(v) of an optional number, "" for None.
OptStr(v) == IF v = NONE THEN "" ELSE NumStr(v)

\* ",".join(sorted(names))
SortedNames(S) == SelectSeq(NameOrder, LAMBDA n : n \in S)

\* _write_user: the passwd line.
passwd_line(u) ==
    <<u.user_name, "x", NumStr(u.uid), NumStr(u.gid), u.real_name, u.home,
      u.shell>>

\* _write_user: the shadow line.  The format string has seven fields and a
\* trailing colon; password_disable_days is not among them.
shadow_line(u) ==
    <<u.user_name,
      IF u.password # NoneStr THEN u.password ELSE "!!",
      OptStr(u.last_password_change_date),
      OptStr(u.password_age_min_days),
      OptStr(u.password_age_max_days),
      OptStr(u.password_warn_days),
      OptStr(u.account_expire_date),
      "">>

\* _write_group: the group line.
group_line(g) ==
    <<g.group_name, "x", NumStr(g.gid), SortedNames(g.members)>>

\* _write_group: the gshadow line.
gshadow_line(g) ==
    <<g.group_name,
      IF g.password # NoneStr THEN g.password ELSE "!",
      SortedNames(g.administrators),
      SortedNames(g.members)>>

\* sorted(self.users.values(), key=lambda u: u.uid): a stable sort of the
\* dict's values.
RECURSIVE sorted_by_uid(_)
sorted_by_uid(us) ==
    IF us = <<>> THEN <<>>
    ELSE LET n == Len(us)
             front == sorted_by_uid(SubSeq(us, 1, n - 1))
             x == us[n]
             k == Cardinality({i \in 1..Len(front) : front[i].uid <= x.uid})
         IN SubSeq(front, 1, k) \o <<x>> \o SubSeq(front, k + 1, Len(front))

\* sorted(self.groups.values(), key=lambda g: g.gid)
RECURSIVE sorted_by_gid(_)
sorted_by_gid(gs) ==
    IF gs = <<>> THEN <<>>
    ELSE LET n == Len(gs)
             front == sorted_by_gid(SubSeq(gs, 1, n - 1))
             x == gs[n]
             k == Cardinality({i \in 1..Len(front) : front[i].gid <= x.gid})
         IN SubSeq(front, 1, k) \o <<x>> \o SubSeq(front, k + 1, Len(front))

\* What write() puts into <f>+ for the database (us, gs).
staged_lines(f, us, gs) ==
    IF f = "passwd"
      THEN [i \in 1..Len(us) |-> passwd_line(sorted_by_uid(us)[i])]
    ELSE IF f = "shadow"
      THEN [i \in 1..Len(us) |-> shadow_line(sorted_by_uid(us)[i])]
    ELSE IF f = "group"
      THEN [i \in 1..Len(gs) |-> group_line(sorted_by_gid(gs)[i])]
    ELSE [i \in 1..Len(gs) |-> gshadow_line(sorted_by_gid(gs)[i])]

VARIABLES
    glock,        \* holder of the lckpwdf() lock, 0 when free
    lockf,        \* lockf[f]: the file <f>.lock
    pidf,         \* pidf[p][f]: <f>.<pid of p> exists
    linked,       \* linked[p][f]: <f>.lock is a hard link to <f>.<pid of p>
    live,         \* live[f]: the account file /etc/<f>
    plus,         \* plus[f]: the staging file /etc/<f>+
    minus,        \* minus[f]: the backup file /etc/<f>-
    lock_count,   \* ShadowDatabaseLock.lock_count of p's current lock object
    lckpwdf_fd,   \* ShadowDatabaseLock._lckpwdf_fd: "None" or "-1"
    timeout,      \* ShadowDatabaseLock.timeout
    rollback,     \* the rollback list of lock()
    pc,           \* where p is
    op,           \* the operation p runs: "scope", "reload", "write", ...
    started,      \* how many operations p has started
    fi,           \* index into lock_order / the rotation order
    exc,          \* the exception in flight ("" when none)
    lock_pid,     \* _lock_file_immediate's lock_pid
    attempts,     \* calls of _lock_file_immediate in the current _lock_file
    sleeps,       \* calls of sleep() in the current _lock_file
    last,         \* how p's last operation ended: "none", "ok", "raised"
    startLockf,   \* lockf when p's lock() began and, again, when it took glock
    users,        \* ShadowDatabase.users of the daemon, in dict order
    groups,       \* ShadowDatabase.groups of the daemon, in dict order
    userKeys,     \* the keys of ShadowDatabase.users, in dict order
    groupKeys,    \* the keys of ShadowDatabase.groups, in dict order
    constructed,  \* ShadowDatabase.__init__ has returned
    preLive,      \* live when the current write() was called
    clearedUsers, \* names of the users whose modified flag write() cleared
    clearedGroups, \* names of the groups whose modified flag write() cleared
    log           \* what the last reload() logged about shadow and gshadow

fsVars == <<glock, lockf, pidf, linked>>

acctVars == <<live, plus, minus>>

objVars == <<lock_count, lckpwdf_fd, timeout, rollback>>

ctlVars == <<pc, op, started, fi, exc, lock_pid, attempts, sleeps, last,
            startLockf>>

dbVars == <<users, groups, userKeys, groupKeys, constructed, preLive,
           clearedUsers, clearedGroups, log>>

vars == <<fsVars, acctVars, objVars, ctlVars, dbVars>>

Sat(n) == IF n < MaxCount THEN n + 1 ELSE MaxCount

\* The file the current _lock_file / _unlock_file call works on.
CurFile(p) == lock_order[fi[p]]

\* ------------------------------------------------------------ initial state

\* Well-formed account files: one user and one group, with their shadow
\* and gshadow lines.
PlainFiles ==
    [f \in FileNames |->
       IF f = "passwd"
         THEN File(<< <<"a", "x", "2", "1", "A", "/h", "/s">> >>)
       ELSE IF f = "shadow"
         THEN File(<< <<"a", "h", "5", "1", "9", "", "7", "8", "">> >>)
       ELSE IF f = "group"
         THEN File(<< <<"a", "x", "1", <<"a">> >> >>)
       ELSE File(<< <<"a", "!", <<>>, <<"a">> >> >>)]

\* An /etc/passwd that holds nothing but the daemon's pid, beside a group
\* file with two groups and a gshadow file that disagrees on the members of
\* one of them.
PidFiles ==
    [f \in FileNames |->
       IF f = "passwd"
         THEN File(<< <<NumStr(Daemon)>> >>)
       ELSE IF f = "shadow"
         THEN File(<<>>)
       ELSE IF f = "group"
         THEN File(<< <<"b", "x", "2", <<"a">> >>,
                      <<"a", "x", "1", <<"a">> >> >>)
       ELSE File(<< <<"b", "!", <<>>, <<"b">> >>,
                    <<"a", "!", <<>>, <<"a">> >> >>)]

InitLive == {PlainFiles, PidFiles}

\* PlainFiles with a vertical tab in the home field of the passwd line.
RepairFiles ==
    [PlainFiles EXCEPT
       !["passwd"] = File(<< <<"a", "x", "2", "1", "A", "^K", "/s">> >>)]

\* PlainFiles whose shadow and gshadow files hold a line with a vertical tab
\* in the password, a line for a name that passwd or group does not have,
\* and a line with too few fields.
SecretFiles ==
    [PlainFiles EXCEPT
       !["shadow"] =
           File(<< <<"a", "^K", "5", "1", "9", "", "7", "8", "">>,
                   <<"c", "s", "5", "1", "9", "", "7", "8", "">>,
                   <<"a", "s">> >>),
       !["gshadow"] =
           File(<< <<"a", "^K", <<>>, <<"a">> >>,
                   <<"c", "s", <<>>, <<>> >>,
                   <<"a", "s">> >>)]

\* The account files the daemon may start from.
DaemonLive == InitLive \cup {RepairFiles, SecretFiles}

\* The files a dead process may have left locked: the first of lock_order
\* and one that follows it.
StaleFiles == {"passwd", "group"}

\* At most one stale <file>.lock, left by the dead process.
InitLocks ==
    { [f \in FileNames |-> NoLock] } \cup
    { [f \in FileNames |-> IF f = g THEN LockText(NumStr(d)) ELSE NoLock] :
        g \in StaleFiles, d \in DeadPids }

\* What /etc/passwd.lock may hold when a lock-only run starts: nothing, the
\* pid of the dead process, the pid of a live shadow utility, or text that
\* is no pid.
HeldLocks ==
    InitLocks \cup
    { [f \in FileNames |-> IF f = lock_order[1] THEN LockText(t) ELSE NoLock] :
        t \in {NumStr(h) : h \in HolderPids} \cup {"x"} }

\* The state before any process has run, with the account files drawn from
\* lives and the lock files from locks.
InitOf(lives, locks) ==
    /\ glock = 0
    /\ lockf \in locks
    /\ pidf = [p \in Procs |-> [f \in FileNames |-> FALSE]]
    /\ linked = [p \in Procs |-> [f \in FileNames |-> FALSE]]
    /\ live \in lives
    /\ plus = [f \in FileNames |-> NoFile]
    /\ minus = [f \in FileNames |-> NoFile]
    /\ lock_count = [p \in Procs |-> 0]
    /\ lckpwdf_fd = [p \in Procs |-> "None"]
    /\ timeout = [p \in Procs |-> NONE]
    /\ rollback = [p \in Procs |-> <<>>]
    /\ pc = [p \in Procs |-> "idle"]
    /\ op = [p \in Procs |-> "none"]
    /\ started = [p \in Procs |-> 0]
    /\ fi = [p \in Procs |-> 1]
    /\ exc = [p \in Procs |-> ""]
    /\ lock_pid = [p \in Procs |-> 0]
    /\ attempts = [p \in Procs |-> 0]
    /\ sleeps = [p \in Procs |-> 0]
    /\ last = [p \in Procs |-> "none"]
    /\ startLockf = [p \in Procs |-> lockf]
    /\ users = <<>>
    /\ userKeys = <<>>
    /\ groups = <<>>
    /\ groupKeys = <<>>
    /\ constructed = FALSE
    /\ preLive = live
    /\ clearedUsers = {}
    /\ clearedGroups = {}
    /\ log = <<>>

InitFrom(lives) == InitOf(lives, InitLocks)

Init == InitFrom(InitLive)

\* ------------------------------------------------- ShadowDatabaseLock: lock

\* ShadowDatabaseLock.__init__ followed by __enter__: a fresh lock object.
NewLock(p, op_name, tmo) ==
    /\ lock_count' = [lock_count EXCEPT ![p] = 0]
    /\ lckpwdf_fd' = [lckpwdf_fd EXCEPT ![p] = "None"]
    /\ timeout' = [timeout EXCEPT ![p] = tmo]
    /\ rollback' = [rollback EXCEPT ![p] = <<>>]
    /\ op' = [op EXCEPT ![p] = op_name]
    /\ started[p] < Budget(p)
    /\ started' = [started EXCEPT ![p] = @ + 1]
    /\ exc' = [exc EXCEPT ![p] = ""]
    /\ last' = [last EXCEPT ![p] = "none"]
    /\ attempts' = [attempts EXCEPT ![p] = 0]
    /\ sleeps' = [sleeps EXCEPT ![p] = 0]
    /\ startLockf' = [startLockf EXCEPT ![p] = lockf]
    /\ pc' = [pc EXCEPT ![p] = "lckpwdf"]
    /\ UNCHANGED <<fi, lock_pid>>

\* "with ShadowDatabaseLock(timeout=tmo): pass" of the cooperating utility.
StartScope(p, tmo) ==
    /\ p = Utility
    /\ pc[p] = "idle"
    /\ NewLock(p, "scope", tmo)
    /\ UNCHANGED <<fsVars, acctVars>>
    /\ UNCHANGED dbVars

\* Fault injection: a lckpwdf() that returns 0 whoever holds the shadow lock.
LckpwdfAlwaysFree == TRUE

\* lckpwdf() returns 0 only when no process holds the shadow lock.
LckpwdfFree == glock = 0

\* _lckpwdf: the libc lock is taken; lock() records _ulckpwdf for rollback.
Lckpwdf(p) ==
    /\ pc[p] = "lckpwdf"
    /\ LckpwdfFree
    /\ glock' = p
    /\ lckpwdf_fd' = [lckpwdf_fd EXCEPT ![p] = "-1"]
    /\ rollback' = [rollback EXCEPT ![p] = <<"_ulckpwdf">>]
    /\ fi' = [fi EXCEPT ![p] = 1]
    /\ pc' = [pc EXCEPT ![p] = "lock_file"]
    /\ startLockf' = [startLockf EXCEPT ![p] = lockf]
    /\ UNCHANGED <<lockf, pidf, linked, acctVars, lock_count, timeout,
                   op, started, exc, lock_pid, attempts, sleeps, last>>
    /\ UNCHANGED dbVars

\* _lckpwdf: lckpwdf() gives up waiting for another holder and returns -1;
\* OSError is raised before anything is appended to rollback.
LckpwdfFail(p) ==
    /\ pc[p] = "lckpwdf"
    /\ glock \notin {0, p}
    /\ exc' = [exc EXCEPT ![p] = "EINTR"]
    /\ pc' = [pc EXCEPT ![p] = "rollback"]
    /\ UNCHANGED <<fsVars, acctVars, objVars, op, started, fi, lock_pid, attempts,
                   sleeps, last, startLockf>>
    /\ UNCHANGED dbVars

\* Where the with-body of the operation starts.
BodyEntry(o) ==
    IF o = "reload" THEN "load"
    ELSE IF o \in {"write", "full_update"} THEN "stage_users"
    ELSE "body"

\* lock(): the loop over _lock_order; entering _lock_file resets its loop
\* state.  After the last file the with-body starts.
LockLoop(p) ==
    /\ pc[p] = "lock_file"
    /\ IF fi[p] > Len(lock_order)
         THEN /\ pc' = [pc EXCEPT ![p] = BodyEntry(op[p])]
              /\ UNCHANGED <<attempts, sleeps>>
         ELSE /\ pc' = [pc EXCEPT ![p] = "immediate"]
              /\ attempts' = [attempts EXCEPT ![p] = 0]
              /\ sleeps' = [sleeps EXCEPT ![p] = 0]
    /\ UNCHANGED <<fsVars, acctVars, objVars, op, started, fi, exc, lock_pid, last,
                   startLockf>>
    /\ UNCHANGED dbVars

\* _lock_file_immediate returned: lock() appends the unlock to rollback and
\* moves to the next file.
LockFileReturn(p) ==
    /\ rollback' = [rollback EXCEPT ![p] = Append(@, CurFile(p))]
    /\ fi' = [fi EXCEPT ![p] = @ + 1]
    /\ pc' = [pc EXCEPT ![p] = "lock_file"]

\* _lock_file_immediate, entry: a lock object that already counts a lock only
\* increments; otherwise steps 1-2 create <file>.<pid> holding the pid.
Immediate(p) ==
    /\ pc[p] = "immediate"
    /\ attempts' = [attempts EXCEPT ![p] = Sat(@)]
    /\ IF lock_count[p] > 0
         THEN /\ lock_count' = [lock_count EXCEPT ![p] = @ + 1]
              /\ LockFileReturn(p)
              /\ UNCHANGED <<pidf, linked>>
         ELSE /\ pidf' = [pidf EXCEPT ![p][CurFile(p)] = TRUE]
              /\ linked' = [linked EXCEPT ![p][CurFile(p)] = FALSE]
              /\ pc' = [pc EXCEPT ![p] = "link"]
              /\ UNCHANGED <<lock_count, rollback, fi>>
    /\ UNCHANGED <<glock, lockf, acctVars, lckpwdf_fd, timeout, op, started, exc,
                   lock_pid, sleeps, last, startLockf>>
    /\ UNCHANGED dbVars

\* Step 3: link(<file>.<pid>, <file>.lock).  EEXIST on the first pass of the
\* "for retry in range(2)" loop leads to the holder check.
Link(p) ==
    /\ pc[p] = "link"
    /\ IF ~lockf[CurFile(p)].ex
         THEN /\ lockf' = [lockf EXCEPT ![CurFile(p)] = LockText(NumStr(p))]
              /\ linked' = [linked EXCEPT ![p][CurFile(p)] = TRUE]
              /\ pc' = [pc EXCEPT ![p] = "stat"]
         ELSE /\ pc' = [pc EXCEPT ![p] = "read_lock"]
              /\ UNCHANGED <<lockf, linked>>
    /\ UNCHANGED <<glock, pidf, acctVars, objVars, op, started, fi, exc, lock_pid,
                   attempts, sleeps, last, startLockf>>
    /\ UNCHANGED dbVars

\* Fault injection: text that is no pid is taken for the pid of a process
\* that is gone.
lock_pid_or_dead(text) ==
    IF IsInt(text) /\ IntOf(text) > 0 THEN IntOf(text)
    ELSE CHOOSE d \in DeadPids : TRUE

\* "lock_pid = int(lock_pid_str); if lock_pid <= 0: raise ValueError": the
\* pid the text stands for, 0 when the ValueError is raised.
read_lock_pid(text) ==
    IF IsInt(text) /\ IntOf(text) > 0 THEN IntOf(text) ELSE 0

\* open(<file>.lock).read(), int(): a missing file raises ENOENT, text that
\* is no positive integer raises EIO.
ReadLock(p) ==
    /\ pc[p] = "read_lock"
    /\ LET lf == lockf[CurFile(p)] IN
         IF ~lf.ex
           THEN /\ exc' = [exc EXCEPT ![p] = "ENOENT"]
                /\ pc' = [pc EXCEPT ![p] = "finally"]
                /\ UNCHANGED lock_pid
           ELSE IF read_lock_pid(lf.text) = 0
             THEN /\ exc' = [exc EXCEPT ![p] = "EIO"]
                  /\ pc' = [pc EXCEPT ![p] = "finally"]
                  /\ UNCHANGED lock_pid
             ELSE /\ lock_pid' = [lock_pid EXCEPT ![p] = read_lock_pid(lf.text)]
                  /\ pc' = [pc EXCEPT ![p] = "kill"]
                  /\ UNCHANGED exc
    /\ UNCHANGED <<fsVars, acctVars, objVars, op, started, fi, attempts, sleeps, last,
                   startLockf>>
    /\ UNCHANGED dbVars

\* kill(lock_pid, 0): a live holder gives EAGAIN, ESRCH goes on to remove the
\* stale lock.
Kill(p) ==
    /\ pc[p] = "kill"
    /\ IF lock_pid[p] \in AlivePids
         THEN /\ exc' = [exc EXCEPT ![p] = "EAGAIN"]
              /\ pc' = [pc EXCEPT ![p] = "finally"]
         ELSE /\ pc' = [pc EXCEPT ![p] = "unlink_stale"]
              /\ UNCHANGED exc
    /\ UNCHANGED <<fsVars, acctVars, objVars, op, started, fi, lock_pid, attempts,
                   sleeps, last, startLockf>>
    /\ UNCHANGED dbVars

\* unlink(<file>.lock) of the stale lock; control then falls through to
\* step 4 of the same loop pass.
UnlinkStale(p) ==
    /\ pc[p] = "unlink_stale"
    /\ IF ~lockf[CurFile(p)].ex
         THEN /\ exc' = [exc EXCEPT ![p] = "ENOENT"]
              /\ pc' = [pc EXCEPT ![p] = "finally"]
              /\ UNCHANGED <<lockf, linked>>
         ELSE /\ lockf' = [lockf EXCEPT ![CurFile(p)] = NoLock]
              /\ linked' = [q \in Procs |->
                              [linked[q] EXCEPT ![CurFile(p)] = FALSE]]
              /\ pc' = [pc EXCEPT ![p] = "stat"]
              /\ UNCHANGED exc
    /\ UNCHANGED <<glock, pidf, acctVars, objVars, op, started, fi, lock_pid,
                   attempts, sleeps, last, startLockf>>
    /\ UNCHANGED dbVars

\* Step 4: stat(<file>.<pid>).st_nlink must be 2, else EIO; on 2 the lock is
\* counted and the function returns.
Stat(p) ==
    /\ pc[p] = "stat"
    /\ IF linked[p][CurFile(p)]
         THEN /\ lock_count' = [lock_count EXCEPT ![p] = 1]
              /\ UNCHANGED exc
         ELSE /\ exc' = [exc EXCEPT ![p] = "EIO"]
              /\ UNCHANGED lock_count
    /\ pc' = [pc EXCEPT ![p] = "finally"]
    /\ UNCHANGED <<fsVars, acctVars, lckpwdf_fd, timeout, rollback, op, started, fi,
                   lock_pid, attempts, sleeps, last, startLockf>>
    /\ UNCHANGED dbVars

\* Step 5, the finally clause: unlink(<file>.<pid>) whether or not the lock
\* was taken; then return to lock() or raise into _lock_file.
Finally(p) ==
    /\ pc[p] = "finally"
    /\ pidf' = [pidf EXCEPT ![p][CurFile(p)] = FALSE]
    /\ linked' = [linked EXCEPT ![p][CurFile(p)] = FALSE]
    /\ IF exc[p] = ""
         THEN LockFileReturn(p)
         ELSE /\ pc' = [pc EXCEPT ![p] = "retry_check"]
              /\ UNCHANGED <<rollback, fi>>
    /\ UNCHANGED <<glock, lockf, acctVars, lock_count, lckpwdf_fd, timeout,
                   op, started, exc, lock_pid, attempts, sleeps, last, startLockf>>
    /\ UNCHANGED dbVars

\* Fault injection: the "or timeout == 0" of the test is missing.
gives_up_on_error_only(p) == exc[p] # "EAGAIN"

\* Fault injection: the "e.errno != EAGAIN" of the test is missing.
gives_up_on_timeout_zero_only(p) == timeout[p] = 0

\* _lock_file: "if e.errno != EAGAIN or timeout == 0: raise".
gives_up(p) == exc[p] # "EAGAIN" \/ timeout[p] = 0

\* Fault injection: an end_time that is never reached.
no_deadline(p) == {FALSE}

\* _lock_file: "if end_time is not None: now = time(); if now > end_time".
\* end_time is set only for a positive timeout.  Each earlier pass slept at
\* least one unit, so after timeout sleeps the deadline has passed; before
\* that it may have passed or not, the clock being the system's.
deadline_passed(p) ==
    IF timeout[p] > 0
      THEN IF sleeps[p] >= timeout[p] THEN {TRUE} ELSE BOOLEAN
      ELSE {FALSE}

\* _lock_file's except clause: anything but EAGAIN, or timeout == 0, is
\* raised; so is EAGAIN once a positive timeout has run out; with timeout
\* None (or negative) end_time is None, so the loop sleeps and tries again.
RetryCheck(p) ==
    /\ pc[p] = "retry_check"
    /\ \E late \in deadline_passed(p) :
         IF gives_up(p) \/ late
           THEN /\ pc' = [pc EXCEPT ![p] = "rollback"]
                /\ UNCHANGED <<exc, sleeps>>
           ELSE /\ sleeps' = [sleeps EXCEPT ![p] = Sat(@)]
                /\ exc' = [exc EXCEPT ![p] = ""]
                /\ pc' = [pc EXCEPT ![p] = "immediate"]
    /\ UNCHANGED <<fsVars, acctVars, objVars, op, started, fi, lock_pid, attempts,
                   last, startLockf>>
    /\ UNCHANGED dbVars

\* ---------------------------------------------- ShadowDatabaseLock: unlock

\* What _unlock_file reads and changes: the lock count of the lock object,
\* the <file>.lock files and which pid files are hard-linked to them.
LockState(p) == [lc |-> lock_count[p], lockf |-> lockf, linked |-> linked]

\* _unlock_file(f): the error it raises, "" when it returns.  It opens the
\* account file <f> itself (not <f>.lock) to validate the pid.
unlock_file_error(p, f, st) ==
    IF st.lc > 1 THEN ""
    ELSE IF ~live[f].ex THEN "ENOENT"
    ELSE IF ~FileIsInt(live[f]) THEN "UnboundLocalError"
    ELSE IF FileInt(live[f]) # p THEN "EINVAL"
    ELSE IF ~st.lockf[f].ex THEN "ENOENT"
    ELSE ""

\* _unlock_file(f): its effect.
unlock_file(p, f, st) ==
    IF st.lc > 1
      THEN [st EXCEPT !.lc = @ - 1]
      ELSE IF unlock_file_error(p, f, st) = ""
        THEN [lc |-> 0,
              lockf |-> [st.lockf EXCEPT ![f] = NoLock],
              linked |-> [q \in Procs |-> [st.linked[q] EXCEPT ![f] = FALSE]]]
        ELSE st

\* _unlock_file for the files fs[n], fs[n-1], ..., fs[1]; an exception of
\* one call is logged and the walk goes on.
RECURSIVE unlock_files(_, _, _, _)
unlock_files(p, fs, n, st) ==
    IF n = 0 THEN st
    ELSE unlock_files(p, fs, n - 1, unlock_file(p, fs[n], st))

\* Fault injection: a lock() that does not record _ulckpwdf for rollback, so
\* that the rolled-back process keeps the shadow lock.
ulckpwdf_not_recorded(p) ==
    /\ glock' = glock
    /\ lckpwdf_fd' = [lckpwdf_fd EXCEPT ![p] = "None"]

\* Fault injection: an unlock() without the try/except around _unlock_file:
\* the exception of the /etc/passwd release leaves unlock() before
\* _ulckpwdf() is reached.
ulckpwdf_after_clean_release(p) ==
    /\ glock' = IF /\ glock = p
                   /\ unlock_file_error(p, lock_order[1],
                                        [LockState(p) EXCEPT !.lc = 1]) = ""
                  THEN 0 ELSE glock
    /\ lckpwdf_fd' = [lckpwdf_fd EXCEPT ![p] = "None"]

\* _ulckpwdf: ulckpwdf() releases the shadow lock of this process; the
\* finally clause resets _lckpwdf_fd.
ulckpwdf(p) ==
    /\ glock' = IF glock = p THEN 0 ELSE glock
    /\ lckpwdf_fd' = [lckpwdf_fd EXCEPT ![p] = "None"]

\* The operation returns to its caller; the locals of the lock routines are
\* gone.
Return(p, how) ==
    /\ pc' = [pc EXCEPT ![p] = "idle"]
    /\ last' = [last EXCEPT ![p] = how]
    /\ fi' = [fi EXCEPT ![p] = 1]
    /\ lock_pid' = [lock_pid EXCEPT ![p] = 0]
    /\ rollback' = [rollback EXCEPT ![p] = <<>>]

\* lock()'s except clause: the rollback list is walked in reverse (the file
\* unlocks, then _ulckpwdf, which is its first entry when present), errors
\* of the rolled-back calls are logged and dropped, then the original
\* exception is re-raised to the caller.
Rollback(p) ==
    /\ pc[p] = "rollback"
    /\ IF rollback[p] = <<>>
         THEN UNCHANGED <<fsVars, lock_count, lckpwdf_fd>>
         ELSE LET files == Tail(rollback[p])
                  st == unlock_files(p, files, Len(files), LockState(p)) IN
              /\ lock_count' = [lock_count EXCEPT ![p] = st.lc]
              /\ lockf' = st.lockf
              /\ linked' = st.linked
              /\ ulckpwdf(p)
              /\ UNCHANGED pidf
    /\ Return(p, "raised")
    /\ UNCHANGED <<acctVars, timeout, op, started, exc, attempts, sleeps,
                   startLockf>>
    /\ UNCHANGED dbVars

\* The body of the utility's with-statement is "pass"; __exit__ calls
\* unlock().
ScopeBody(p) ==
    /\ pc[p] = "body"
    /\ op[p] = "scope"
    /\ pc' = [pc EXCEPT ![p] = "unlock"]
    /\ UNCHANGED <<fsVars, acctVars, objVars, op, started, fi, exc, lock_pid,
                   attempts, sleeps, last, startLockf>>
    /\ UNCHANGED dbVars

\* unlock(): _unlock_file for each file in reversed(_lock_order), then
\* _ulckpwdf(); __exit__ returns None, so an exception of the with-body
\* propagates to the caller.
Unlock(p) ==
    /\ pc[p] = "unlock"
    /\ LET st == unlock_files(p, lock_order, Len(lock_order), LockState(p)) IN
         /\ lock_count' = [lock_count EXCEPT ![p] = st.lc]
         /\ lockf' = st.lockf
         /\ linked' = st.linked
    /\ ulckpwdf(p)
    /\ Return(p, IF exc[p] = "" THEN "ok" ELSE "raised")
    /\ constructed' = (constructed \/ (op[p] = "reload" /\ exc[p] = ""))
    /\ UNCHANGED <<pidf, acctVars, timeout, op, started, exc, attempts,
                   sleeps, startLockf>>
    /\ UNCHANGED <<users, userKeys, groups, groupKeys, preLive, clearedUsers,
                   clearedGroups>>
    /\ UNCHANGED log

\* ---------------------------------------------------- ShadowDatabase: reload

\* The with-body raises e: __exit__ runs unlock().
BodyRaise(p, e) ==
    /\ exc' = [exc EXCEPT ![p] = e]
    /\ pc' = [pc EXCEPT ![p] = "unlock"]

\* The with-body ends: __exit__ runs unlock().
BodyEnd(p) ==
    /\ pc' = [pc EXCEPT ![p] = "unlock"]
    /\ UNCHANGED exc

\* ShadowDatabase.__init__ / reload(): the maps are emptied, then the lock is
\* entered.
StartReload(p) ==
    /\ p = Daemon
    /\ pc[p] = "idle"
    /\ users' = <<>>
    /\ userKeys' = <<>>
    /\ groups' = <<>>
    /\ groupKeys' = <<>>
    /\ clearedUsers' = {}
    /\ clearedGroups' = {}
    /\ NewLock(p, "reload", NONE)
    /\ UNCHANGED <<fsVars, acctVars, constructed, preLive>>
    /\ log' = <<>>

\* The first of the files, in the order reload() reads them, that is
\* missing ("" when all are there): open() raises there.
load_order == <<"passwd", "group", "gshadow", "shadow">>

FirstMissing ==
    IF \A i \in 1..Len(load_order) : live[load_order[i]].ex THEN 0
    ELSE CHOOSE i \in 1..Len(load_order) :
           /\ ~live[load_order[i]].ex
           /\ \A j \in 1..(i - 1) : live[load_order[j]].ex

\* The with-body of reload(): _load_passwd_file, _load_group_file,
\* _load_gshadow_file, _load_shadow_file; the first missing file, or a
\* ValueError of the shadow loader, ends it with what was loaded before.
Load(p) ==
    /\ pc[p] = "load"
    /\ LET m == FirstMissing
           u1 == load_passwd_file(users, live["passwd"].lines)
           g1 == load_group_file(groups, live["group"].lines)
           g2 == load_gshadow_file(g1, live["gshadow"].lines)
           r == load_shadow_file(u1, live["shadow"].lines) IN
         /\ users' = IF m = 1 THEN users ELSE IF m = 0 THEN r.users ELSE u1
         /\ groups' = IF m \in {1, 2} THEN groups
                      ELSE IF m = 3 THEN g1 ELSE g2
         /\ userKeys' = IF m = 1 THEN userKeys
                        ELSE StoredKeys(users', "user_name")
         /\ groupKeys' = IF m \in {1, 2} THEN groupKeys
                         ELSE StoredKeys(groups', "group_name")
         /\ IF m # 0 THEN BodyRaise(p, "ENOENT")
            ELSE IF r.err # "" THEN BodyRaise(p, r.err)
            ELSE BodyEnd(p)
         /\ log' = (IF m \in {0, 4}
                       THEN gshadow_file_log(g1, live["gshadow"].lines, 1)
                       ELSE <<>>)
                    \o (IF m = 0
                          THEN shadow_file_log(u1, live["shadow"].lines, 1)
                          ELSE <<>>)
    /\ UNCHANGED <<fsVars, acctVars, objVars, op, started, fi, lock_pid,
                   attempts, sleeps, last, startLockf, constructed, preLive,
                   clearedUsers, clearedGroups>>

\* ----------------------------------------------------- ShadowDatabase: write

\* The records a caller of the database constructs and stores:
\* sdb.users[user.user_name] = User(...).
NewUsers ==
    { User("a", 2, 1, "A", "/h", "/s", TRUE),
      User("b", 1, 1, "B", "/h", "/s", TRUE) }

InsertUser(p, u) ==
    /\ p = Daemon
    /\ pc[p] = "idle"
    /\ constructed
    /\ users' = PutUser(users, u)
    /\ userKeys' = StoredKeys(users', "user_name")
    /\ clearedUsers' = clearedUsers \ {u.user_name}
    /\ op' = [op EXCEPT ![p] = "insert"]
    /\ started[p] < Budget(p)
    /\ started' = [started EXCEPT ![p] = @ + 1]
    /\ last' = [last EXCEPT ![p] = "ok"]
    /\ exc' = [exc EXCEPT ![p] = ""]
    /\ UNCHANGED <<fsVars, acctVars, objVars, pc, fi, lock_pid, attempts,
                   sleeps, startLockf, groups, groupKeys, constructed, preLive,
                   clearedGroups>>
    /\ UNCHANGED log

\* write(): the lock is entered.
StartWrite(p) ==
    /\ p = Daemon
    /\ pc[p] = "idle"
    /\ constructed
    /\ preLive' = live
    /\ NewLock(p, "write", NONE)
    /\ UNCHANGED <<fsVars, acctVars, users, userKeys, groups, groupKeys, constructed,
                   clearedUsers, clearedGroups>>
    /\ UNCHANGED log

\* Fault injection: the flag is left as it was.
KeepModified(rec) == rec

\* "user.modified = False" / "group.modified = False" after the record is
\* written to the staging files.
ClearModified(rec) == [rec EXCEPT !.modified = FALSE]

\* The records of a dict after the staging loop wrote the first k of the
\* sorted records.
ClearUsers(us, k) ==
    LET done == {sorted_by_uid(us)[i].user_name : i \in 1..k} IN
    [i \in 1..Len(us) |->
        IF us[i].user_name \in done THEN ClearModified(us[i]) ELSE us[i]]

ClearGroups(gs, k) ==
    LET done == {sorted_by_gid(gs)[i].group_name : i \in 1..k} IN
    [i \in 1..Len(gs) |->
        IF gs[i].group_name \in done THEN ClearModified(gs[i]) ELSE gs[i]]

\* The names of those among the first k records whose flag the staging loop
\* turns from TRUE to FALSE.
ModifiedUsers(us, k) ==
    {us[i].user_name : i \in {j \in 1..k : us[j].modified}}

ModifiedGroups(gs, k) ==
    {gs[i].group_name : i \in {j \in 1..k : gs[j].modified}}

\* ShadowWriter.__enter__ raises OSError: at the first os_open nothing was
\* created; at the second the first staging file is unlinked again.
WriterOpenFails(f1, second) ==
    /\ plus' = IF second THEN [plus EXCEPT ![f1] = NoFile] ELSE plus
    /\ UNCHANGED <<live, minus>>

\* ShadowWriter.__exit__ with an exception: both staging files are unlinked.
WriterAbort(f1, f2) ==
    /\ plus' = [plus EXCEPT ![f1] = NoFile, ![f2] = NoFile]
    /\ UNCHANGED <<live, minus>>

\* ShadowWriter.__exit__ without an exception: both staging files hold what
\* was written.
WriterCommit(f1, f2) ==
    /\ plus' = [plus EXCEPT ![f1] = File(staged_lines(f1, users, groups)),
                            ![f2] = File(staged_lines(f2, users, groups))]
    /\ UNCHANGED <<live, minus>>

\* _write_user_plus_files: every user is written and its flag cleared.
StageUsers(p) ==
    /\ pc[p] = "stage_users"
    /\ WriterCommit("passwd", "shadow")
    /\ UNCHANGED userKeys
    /\ users' = ClearUsers(users, Len(users))
    /\ clearedUsers' = ModifiedUsers(users, Len(users))
    /\ pc' = [pc EXCEPT ![p] = "stage_groups"]
    /\ UNCHANGED <<fsVars, objVars, op, started, fi, exc, lock_pid, attempts,
                   sleeps, last, startLockf, groups, groupKeys, constructed, preLive,
                   clearedGroups>>
    /\ UNCHANGED log

\* _write_user_plus_files: every user is written, but in ShadowWriter.__exit__
\* flush() or fsync() of the staging file <f>+ raises OSError after k lines
\* reached the file.  __exit__ swallows the error ("except OSError: pass"),
\* exc_type is None, nothing is unlinked and write() goes on.
StageUsersFlushFails(p, f, k) ==
    /\ pc[p] = "stage_users"
    /\ f \in {"passwd", "shadow"}
    /\ k <= Len(staged_lines(f, users, groups))
    /\ plus' = [g \in FileNames |->
                  IF g = f
                    THEN File(SubSeq(staged_lines(f, users, groups), 1, k))
                  ELSE IF g \in {"passwd", "shadow"}
                    THEN File(staged_lines(g, users, groups))
                  ELSE plus[g]]
    /\ UNCHANGED <<live, minus>>
    /\ UNCHANGED userKeys
    /\ users' = ClearUsers(users, Len(users))
    /\ clearedUsers' = ModifiedUsers(users, Len(users))
    /\ pc' = [pc EXCEPT ![p] = "stage_groups"]
    /\ UNCHANGED <<fsVars, objVars, op, started, fi, exc, lock_pid, attempts,
                   sleeps, last, startLockf, groups, groupKeys, constructed, preLive,
                   clearedGroups>>
    /\ UNCHANGED log

\* _write_user_plus_files: os_open of passwd+ or of shadow+ fails.
StageUsersOpenFails(p, second) ==
    /\ pc[p] = "stage_users"
    /\ WriterOpenFails("passwd", second)
    /\ BodyRaise(p, "OSError")
    /\ UNCHANGED <<fsVars, objVars, op, started, fi, lock_pid, attempts,
                   sleeps, last, startLockf, dbVars>>

\* _write_user_plus_files: a write fails after k users were written.
StageUsersWriteFails(p, k) ==
    /\ pc[p] = "stage_users"
    /\ k < Len(users)
    /\ WriterAbort("passwd", "shadow")
    /\ UNCHANGED userKeys
    /\ users' = ClearUsers(users, k)
    /\ clearedUsers' = clearedUsers \cup
                         ModifiedUsers(sorted_by_uid(users), k)
    /\ BodyRaise(p, "OSError")
    /\ UNCHANGED <<fsVars, objVars, op, started, fi, lock_pid, attempts,
                   sleeps, last, startLockf, groups, groupKeys, constructed, preLive,
                   clearedGroups>>
    /\ UNCHANGED log

\* _write_group_plus_files: every group is written and its flag cleared.
StageGroups(p) ==
    /\ pc[p] = "stage_groups"
    /\ WriterCommit("group", "gshadow")
    /\ UNCHANGED groupKeys
    /\ groups' = ClearGroups(groups, Len(groups))
    /\ clearedGroups' = ModifiedGroups(groups, Len(groups))
    /\ pc' = [pc EXCEPT ![p] = "rotate"]
    /\ fi' = [fi EXCEPT ![p] = 1]
    /\ UNCHANGED <<fsVars, objVars, op, started, exc, lock_pid, attempts,
                   sleeps, last, startLockf, users, userKeys, constructed, preLive,
                   clearedUsers>>
    /\ UNCHANGED log

\* _write_group_plus_files: os_open of group+ or of gshadow+ fails.
StageGroupsOpenFails(p, second) ==
    /\ pc[p] = "stage_groups"
    /\ WriterOpenFails("group", second)
    /\ BodyRaise(p, "OSError")
    /\ UNCHANGED <<fsVars, objVars, op, started, fi, lock_pid, attempts,
                   sleeps, last, startLockf, dbVars>>

\* _write_group_plus_files: a write fails after k groups were written.
StageGroupsWriteFails(p, k) ==
    /\ pc[p] = "stage_groups"
    /\ k < Len(groups)
    /\ WriterAbort("group", "gshadow")
    /\ UNCHANGED groupKeys
    /\ groups' = ClearGroups(groups, k)
    /\ clearedGroups' = clearedGroups \cup
                          ModifiedGroups(sorted_by_gid(groups), k)
    /\ BodyRaise(p, "OSError")
    /\ UNCHANGED <<fsVars, objVars, op, started, fi, lock_pid, attempts,
                   sleeps, last, startLockf, users, userKeys, constructed, preLive,
                   clearedUsers>>
    /\ UNCHANGED log

\* The order in which _rotate_files walks the files.
rotate_order == <<"passwd", "shadow", "group", "gshadow">>

RotFile(p) == rotate_order[fi[p]]

\* The three directories of names a rotation touches.
Acct == [live |-> live, plus |-> plus, minus |-> minus]

\* _rotate_files: "if exists(backup_filename): unlink(backup_filename)".
unlink_backup(a, f) == [a EXCEPT !.minus[f] = NoFile]

\* _rotate_files: rename(filename, backup_filename).
rename_live(a, f) == [a EXCEPT !.minus[f] = a.live[f], !.live[f] = NoFile]

\* Fault injection: <file>+ is copied to its target, not renamed.
copy_new(a, f) == [a EXCEPT !.minus[f] = a.plus[f]]

\* _rotate_files: rename(new_filename, backup_filename).
rename_new(a, f) == [a EXCEPT !.minus[f] = a.plus[f], !.plus[f] = NoFile]

\* _rotate_files, one pass of its loop: the assertion, the unlink of the
\* backup and the two renames; the first rename raises when the live file
\* is missing or the system call fails.  After the last file the with-body
\* ends.
Rotate(p, fails) ==
    /\ pc[p] = "rotate"
    /\ LET f == RotFile(p)
           a1 == unlink_backup(Acct, f)
           a3 == rename_new(rename_live(a1, f), f) IN
         IF ~plus[f].ex
           THEN /\ BodyRaise(p, "AssertionError")
                /\ UNCHANGED <<acctVars, fi>>
         ELSE IF ~live[f].ex \/ fails
           THEN /\ BodyRaise(p, IF live[f].ex THEN "OSError" ELSE "ENOENT")
                /\ minus' = a1.minus
                /\ UNCHANGED <<live, plus, fi>>
         ELSE /\ live' = a3.live
              /\ plus' = a3.plus
              /\ minus' = a3.minus
              /\ IF fi[p] = Len(rotate_order)
                   THEN /\ BodyEnd(p)
                        /\ UNCHANGED fi
                   ELSE /\ fi' = [fi EXCEPT ![p] = @ + 1]
                        /\ UNCHANGED <<pc, exc>>
    /\ UNCHANGED <<fsVars, objVars, op, started, lock_pid, attempts, sleeps,
                   last, startLockf, dbVars>>

\* ------------------------------------------------------ Daemon: full_update

\* The attribute k is in the DynamoDB item; item[k] raises KeyError
\* otherwise.
HasAttr(item, k) == k \in DOMAIN item

\* The first key of ks that the item lacks, "" when it has them all.
RECURSIVE MissingAttr(_, _)
MissingAttr(item, ks) ==
    IF ks = <<>> THEN ""
    ELSE IF ~HasAttr(item, Head(ks)) THEN Head(ks)
    ELSE MissingAttr(item, Tail(ks))

\* The user_name / group_name setter: the error it raises, "" when the
\* value is stored.
name_setter(ty, value) ==
    IF ty # "str" THEN "TypeError"
    ELSE IF value = "" THEN "ValueError"
    ELSE IF ~NAME_PATTERN_match(value) THEN "ValueError"
    ELSE ""

\* The uid / gid setter: isinstance(value, int), then the range check.
id_setter(ty, value, lo, hi) ==
    IF ty # "int" THEN "TypeError"
    ELSE IF ~(lo <= value /\ value <= hi) THEN "ValueError"
    ELSE ""

\* The Python type of item[k]["N"] and item[k]["S"]: the DynamoDB client
\* returns both as str.
AttrType(kind) == "str"

\* User.from_dynamodb_item: the keyword arguments are evaluated in order
\* (KeyError at the first attribute the item lacks), then User.__init__
\* assigns user_name, uid, ... through the setters.
User_from_dynamodb_item(item) ==
    LET missing == MissingAttr(item, <<"UserName", "UID", "GID", "RealName",
                                       "Home", "Shell">>) IN
    IF missing # "" THEN [err |-> "KeyError", rec |-> <<>>]
    ELSE IF name_setter(AttrType("S"), item.UserName) # ""
      THEN [err |-> name_setter(AttrType("S"), item.UserName), rec |-> <<>>]
    ELSE IF id_setter(AttrType("N"), item.UID, UID_MIN, UID_MAX) # ""
      THEN [err |-> id_setter(AttrType("N"), item.UID, UID_MIN, UID_MAX),
            rec |-> <<>>]
    ELSE IF id_setter(AttrType("N"), item.GID, GID_MIN, GID_MAX) # ""
      THEN [err |-> id_setter(AttrType("N"), item.GID, GID_MIN, GID_MAX),
            rec |-> <<>>]
    ELSE [err |-> "",
          rec |-> User(item.UserName, item.UID, item.GID, item.RealName,
                        item.Home, item.Shell, TRUE)]

\* "self.uid != uid" of an int attribute and an item value: values of
\* different Python types are never equal.
IdDiffers(current, ty, value) ==
    IF ty # "int" THEN TRUE ELSE current # value

\* One "x = item[k][..]; if self.x != x: self.x = x; self.modified = True"
\* of update_from_dynamodb_item, after the steps that gave r: a missing
\* attribute raises KeyError, the setter may raise, and the record keeps
\* what the earlier steps stored.
UpdateStep(r, missing, differs, setter_err, f, value) ==
    IF r.err # "" THEN r
    ELSE IF missing THEN [err |-> "KeyError", rec |-> r.rec]
    ELSE IF ~differs THEN r
    ELSE IF setter_err # "" THEN [err |-> setter_err, rec |-> r.rec]
    ELSE [err |-> "", rec |-> [r.rec EXCEPT ![f] = value, !.modified = TRUE]]

\* The real_name, home and shell setters on a str: FIELD_PATTERN must match.
field_setter(ty, value, err) ==
    IF ty # "str" THEN "TypeError"
    ELSE IF ~FIELD_PATTERN_match(value) THEN err
    ELSE ""

\* The attributes update_from_dynamodb_item reads with item.get(k, {}): None
\* when the item lacks them.
OptionalUserAttrs ==
    << <<"Password", "password">>,
       <<"LastPasswordChangeDate", "last_password_change_date">>,
       <<"PasswordAgeMinDays", "password_age_min_days">>,
       <<"PasswordAgeMaxDays", "password_age_max_days">>,
       <<"PasswordWarnDays", "password_warn_days">>,
       <<"PasswordDisableDays", "password_disable_days">>,
       <<"AccountExpireDate", "account_expire_date">> >>

\* None as the record holds it in the attribute f.
NoneOf(f) == IF f = "password" THEN NoneStr ELSE NONE

\* The steps for the optional attributes, in order; a value the item
\* carries is a str and differs from the None or int the record holds.
RECURSIVE UpdateOptional(_, _, _)
UpdateOptional(r, item, attrs) ==
    IF attrs = <<>> THEN r
    ELSE LET k == Head(attrs)[1]
             f == Head(attrs)[2] IN
         UpdateOptional(
             IF HasAttr(item, k)
               THEN UpdateStep(r, FALSE,
                               f # "password" \/ r.rec[f] # item[k], "",
                               f, item[k])
               ELSE UpdateStep(r, FALSE, r.rec[f] # NoneOf(f), "",
                               f, NoneOf(f)),
             item, Tail(attrs))

\* Fault injection: the name of the item replaces the name of the record.
User_update_renames(u, item) ==
    IF ~HasAttr(item, "UserName") THEN [err |-> "KeyError", rec |-> u]
    ELSE [err |-> "", rec |-> [u EXCEPT !.user_name = item.UserName]]

\* User.update_from_dynamodb_item: the name check, then one step for each
\* attribute; the record is returned as it is left when an error is raised.
User_update_from_dynamodb_item(u, item) ==
    IF ~HasAttr(item, "UserName") THEN [err |-> "KeyError", rec |-> u]
    ELSE IF u.user_name # item.UserName
      THEN [err |-> "ValueError", rec |-> u]
    ELSE
      LET r0 == [err |-> "", rec |-> u]
          r1 == UpdateStep(r0, ~HasAttr(item, "UID"),
                    IdDiffers(u.uid, AttrType("N"), item.UID),
                    id_setter(AttrType("N"), item.UID, UID_MIN, UID_MAX),
                    "uid", item.UID)
          r2 == UpdateStep(r1, ~HasAttr(item, "GID"),
                    IdDiffers(u.gid, AttrType("N"), item.GID),
                    id_setter(AttrType("N"), item.GID, GID_MIN, GID_MAX),
                    "gid", item.GID)
          r3 == UpdateStep(r2, ~HasAttr(item, "RealName"),
                    u.real_name # item.RealName,
                    field_setter(AttrType("S"), item.RealName, "ValueError"),
                    "real_name", item.RealName)
          r4 == UpdateStep(r3, ~HasAttr(item, "Home"),
                    u.home # item.Home,
                    field_setter(AttrType("S"), item.Home, "TypeError"),
                    "home", item.Home)
          r5 == UpdateStep(r4, ~HasAttr(item, "Shell"),
                    u.shell # item.Shell,
                    field_setter(AttrType("S"), item.Shell, "ValueError"),
                    "shell", item.Shell)
      IN UpdateOptional(r5, item, OptionalUserAttrs)

\* item.get(k, {}).get("SS", []) as a set.
ItemSet(item, k) == IF HasAttr(item, k) THEN item[k] ELSE {}

\* Group.update_from_dynamodb_item.  The administrators and members setters
\* take a list, set or tuple of names.
Group_update_from_dynamodb_item(g, item) ==
    IF ~HasAttr(item, "GroupName") THEN [err |-> "KeyError", rec |-> g]
    ELSE IF g.group_name # item.GroupName
      THEN [err |-> "ValueError", rec |-> g]
    ELSE
      LET r0 == [err |-> "", rec |-> g]
          r1 == UpdateStep(r0, ~HasAttr(item, "GID"),
                    IdDiffers(g.gid, AttrType("N"), item.GID),
                    id_setter(AttrType("N"), item.GID, GID_MIN, GID_MAX),
                    "gid", item.GID)
          r2 == UpdateStep(r1, FALSE,
                    g.administrators # ItemSet(item, "Administrators"),
                    IF \A n \in ItemSet(item, "Administrators") :
                           NAME_PATTERN_match(n)
                      THEN "" ELSE "ValueError",
                    "administrators", ItemSet(item, "Administrators"))
          r3 == UpdateStep(r2, FALSE,
                    g.members # ItemSet(item, "Members"),
                    IF \A n \in ItemSet(item, "Members") :
                           NAME_PATTERN_match(n)
                      THEN "" ELSE "ValueError",
                    "members", ItemSet(item, "Members"))
      IN UpdateOptional(r3, item, << <<"Password", "password">> >>)

\* Daemon.reload_users: the loop over the scanned items; an exception of an
\* item ends the loop with the map as it is then.
RECURSIVE reload_users(_, _, _)
reload_users(us, keys, items) ==
    IF items = <<>> THEN [err |-> "", users |-> us, keys |-> keys]
    ELSE LET item == Head(items)
             i == KeyIndex(keys, item.Name)
             made == User_from_dynamodb_item(item)
             updated == User_update_from_dynamodb_item(us[i], item) IN
         IF i = 0
           THEN IF made.err # ""
                  THEN [err |-> made.err, users |-> us, keys |-> keys]
                  ELSE reload_users(Append(us, made.rec),
                                    Append(keys, item.Name), Tail(items))
           ELSE IF updated.err # ""
                  THEN [err |-> updated.err,
                        users |-> [us EXCEPT ![i] = updated.rec],
                        keys |-> keys]
                  ELSE reload_users([us EXCEPT ![i] = updated.rec], keys,
                                    Tail(items))

\* Daemon.reload_groups: the Group class has no from_dynamodb_item, so the
\* lookup of that attribute raises AttributeError for a name that is not in
\* the map.
RECURSIVE reload_groups(_, _, _)
reload_groups(gs, keys, items) ==
    IF items = <<>> THEN [err |-> "", groups |-> gs]
    ELSE LET item == Head(items)
             i == KeyIndex(keys, item.Name)
             updated == Group_update_from_dynamodb_item(gs[i], item) IN
         IF i = 0 THEN [err |-> "AttributeError", groups |-> gs]
         ELSE IF updated.err # ""
           THEN [err |-> updated.err,
                 groups |-> [gs EXCEPT ![i] = updated.rec]]
           ELSE reload_groups([gs EXCEPT ![i] = updated.rec], keys,
                              Tail(items))

\* The items a scan of the tables returns.  The test tables key an item by
\* "Name"; an item may carry a "UserName" or "GroupName" attribute besides.
ItemNames == {"a", "b"}

UserItems ==
    { [Name |-> n, UID |-> "2", GID |-> "1"] : n \in ItemNames } \cup
    { [Name |-> n, UserName |-> m, UID |-> "2", GID |-> "1",
       RealName |-> "A", Home |-> "/h", Shell |-> "/s"] :
        n \in ItemNames, m \in ItemNames }

GroupItems ==
    { [Name |-> n, GID |-> "1", Members |-> {"a"}] : n \in ItemNames } \cup
    { [Name |-> n, GroupName |-> m, GID |-> "1", Members |-> {"a"}] :
        n \in ItemNames, m \in ItemNames }

\* The snapshots of the two tables: both empty, or one item in one of them.
Snapshots ==
    { [groups |-> <<>>, users |-> <<>>] } \cup
    { [groups |-> <<>>, users |-> <<i>>] : i \in UserItems } \cup
    { [groups |-> <<i>>, users |-> <<>>] : i \in GroupItems }

\* A call on the database or one of its records that takes no lock returns
\* or raises err.
Call(p, name, err) ==
    /\ p = Daemon
    /\ pc[p] = "idle"
    /\ constructed
    /\ started[p] < Budget(p)
    /\ started' = [started EXCEPT ![p] = @ + 1]
    /\ op' = [op EXCEPT ![p] = name]
    /\ last' = [last EXCEPT ![p] = IF err = "" THEN "ok" ELSE "raised"]
    /\ exc' = [exc EXCEPT ![p] = err]
    /\ UNCHANGED <<fsVars, acctVars, objVars, pc, fi, lock_pid, attempts,
                   sleeps, startLockf, constructed, preLive>>

\* The names of cleared whose records still have the flag down.
StillCleared(cleared, names) == cleared \cap names

\* Daemon.full_update: reload_groups(), reload_users(), then
\* self.shadow.write() whatever the merge did.  dynamodb_users holds a name
\* only after its item was merged without an exception, so the loop over it
\* that follows write() has nothing to visit when write() is reached with
\* the items above.
FullUpdate(p, snap) ==
    LET g == reload_groups(groups, groupKeys, snap.groups)
        u == IF g.err = "" THEN reload_users(users, userKeys, snap.users)
             ELSE [err |-> g.err, users |-> users, keys |-> userKeys] IN
    /\ groups' = g.groups
    /\ users' = u.users
    /\ UNCHANGED groupKeys
    /\ userKeys' = u.keys
    /\ clearedUsers' =
         StillCleared(clearedUsers,
                      {u.users[i].user_name : i \in
                         {j \in 1..Len(u.users) : ~u.users[j].modified}})
    /\ clearedGroups' =
         StillCleared(clearedGroups,
                      {g.groups[i].group_name : i \in
                         {j \in 1..Len(g.groups) : ~g.groups[j].modified}})
    /\ IF u.err # ""
         THEN Call(p, "full_update", u.err)
         ELSE /\ p = Daemon
              /\ pc[p] = "idle"
              /\ constructed
              /\ preLive' = live
              /\ NewLock(p, "full_update", NONE)
              /\ UNCHANGED <<fsVars, acctVars, constructed>>
    /\ UNCHANGED log

\* sdb.users[name].update_from_dynamodb_item(item) called on a record.
UpdateUser(p, i, item) ==
    /\ i \in 1..Len(users)
    /\ LET r == User_update_from_dynamodb_item(users[i], item) IN
         /\ UNCHANGED userKeys
         /\ users' = [users EXCEPT ![i] = r.rec]
         /\ clearedUsers' = IF r.rec.modified
                              THEN clearedUsers \ {r.rec.user_name}
                              ELSE clearedUsers
         /\ Call(p, "update", r.err)
    /\ UNCHANGED <<groups, groupKeys, clearedGroups>>
    /\ UNCHANGED log

\* sdb.groups[name].update_from_dynamodb_item(item) called on a record.
UpdateGroup(p, i, item) ==
    /\ i \in 1..Len(groups)
    /\ LET r == Group_update_from_dynamodb_item(groups[i], item) IN
         /\ UNCHANGED groupKeys
         /\ groups' = [groups EXCEPT ![i] = r.rec]
         /\ clearedGroups' = IF r.rec.modified
                               THEN clearedGroups \ {r.rec.group_name}
                               ELSE clearedGroups
         /\ Call(p, "update", r.err)
    /\ UNCHANGED <<users, userKeys, clearedUsers>>
    /\ UNCHANGED log

\* The ints a caller assigns to uid or gid.
NewIds == {1, 2}

\* "sdb.users[name].uid = value": the setter validates and stores; it does
\* not touch modified.
SetUid(p, i, value) ==
    /\ i \in 1..Len(users)
    /\ LET err == id_setter("int", value, UID_MIN, UID_MAX) IN
         /\ UNCHANGED userKeys
         /\ users' = IF err = "" THEN [users EXCEPT ![i].uid = value]
                     ELSE users
         /\ Call(p, "set", err)
    /\ UNCHANGED <<groups, groupKeys, clearedUsers, clearedGroups>>
    /\ UNCHANGED log

\* "sdb.groups[name].gid = value"
SetGid(p, i, value) ==
    /\ i \in 1..Len(groups)
    /\ LET err == id_setter("int", value, GID_MIN, GID_MAX) IN
         /\ UNCHANGED groupKeys
         /\ groups' = IF err = "" THEN [groups EXCEPT ![i].gid = value]
                      ELSE groups
         /\ Call(p, "set", err)
    /\ UNCHANGED <<users, userKeys, clearedUsers, clearedGroups>>
    /\ UNCHANGED log

\* ------------------------------------------------------------ specification

Next ==
    \/ \E p \in Procs, t \in Timeouts : StartScope(p, t)
    \/ \E p \in Procs : Lckpwdf(p)
    \/ \E p \in Procs : LckpwdfFail(p)
    \/ \E p \in Procs : LockLoop(p)
    \/ \E p \in Procs : Immediate(p)
    \/ \E p \in Procs : Link(p)
    \/ \E p \in Procs : ReadLock(p)
    \/ \E p \in Procs : Kill(p)
    \/ \E p \in Procs : UnlinkStale(p)
    \/ \E p \in Procs : Stat(p)
    \/ \E p \in Procs : Finally(p)
    \/ \E p \in Procs : RetryCheck(p)
    \/ \E p \in Procs : Rollback(p)
    \/ \E p \in Procs : ScopeBody(p)
    \/ \E p \in Procs : Unlock(p)
    \/ \E p \in Procs : StartReload(p)
    \/ \E p \in Procs : Load(p)
    \/ \E p \in Procs, u \in NewUsers : InsertUser(p, u)
    \/ \E p \in Procs : StartWrite(p)
    \/ \E p \in Procs : StageUsers(p)
    \/ \E p \in Procs, second \in BOOLEAN : StageUsersOpenFails(p, second)
    \/ \E p \in Procs, k \in 0..Len(users) : StageUsersWriteFails(p, k)
    \/ \E p \in Procs : StageGroups(p)
    \/ \E p \in Procs, second \in BOOLEAN : StageGroupsOpenFails(p, second)
    \/ \E p \in Procs, k \in 0..Len(groups) : StageGroupsWriteFails(p, k)
    \/ \E p \in Procs, fails \in BOOLEAN : Rotate(p, fails)

Spec == Init /\ [][Next]_vars


\* The daemon alone: its constructor, then full_update and the calls a user
\* of the database makes on it and on its records, with the I/O failures of
\* staging and rotation.
DaemonNext ==
    \/ /\ ~constructed
       /\ StartReload(Daemon)
    \/ \E snap \in Snapshots : FullUpdate(Daemon, snap)
    \/ \E i \in 1..MaxCount, item \in UserItems : UpdateUser(Daemon, i, item)
    \/ \E i \in 1..MaxCount, item \in GroupItems :
           UpdateGroup(Daemon, i, item)
    \/ \E i \in 1..MaxCount, v \in NewIds : SetUid(Daemon, i, v)
    \/ \E i \in 1..MaxCount, v \in NewIds : SetGid(Daemon, i, v)
    \/ \E u \in NewUsers : InsertUser(Daemon, u)
    \/ StartWrite(Daemon)
    \/ Lckpwdf(Daemon)
    \/ LockLoop(Daemon)
    \/ Immediate(Daemon)
    \/ Link(Daemon)
    \/ ReadLock(Daemon)
    \/ Kill(Daemon)
    \/ UnlinkStale(Daemon)
    \/ Stat(Daemon)
    \/ Finally(Daemon)
    \/ RetryCheck(Daemon)
    \/ Rollback(Daemon)
    \/ Unlock(Daemon)
    \/ Load(Daemon)
    \/ StageUsers(Daemon)
    \/ \E f \in FileNames, k \in 0..MaxCount :
           StageUsersFlushFails(Daemon, f, k)
    \/ StageGroups(Daemon)
    \/ \E fails \in BOOLEAN : Rotate(Daemon, fails)

DaemonInit == InitFrom(DaemonLive)

DaemonSpec == DaemonInit /\ [][DaemonNext]_vars

\* The round trip of test_save run by the daemon alone, with no I/O
\* failures: reload() (the constructor), write(), reload().
RoundTripNext ==
    \/ /\ started[Daemon] = 0 \/ (started[Daemon] = 2 /\ last[Daemon] = "ok")
       /\ StartReload(Daemon)
    \/ /\ started[Daemon] = 1
       /\ StartWrite(Daemon)
    \/ Lckpwdf(Daemon)
    \/ LockLoop(Daemon)
    \/ Immediate(Daemon)
    \/ Link(Daemon)
    \/ ReadLock(Daemon)
    \/ Kill(Daemon)
    \/ UnlinkStale(Daemon)
    \/ Stat(Daemon)
    \/ Finally(Daemon)
    \/ RetryCheck(Daemon)
    \/ Rollback(Daemon)
    \/ Unlock(Daemon)
    \/ Load(Daemon)
    \/ StageUsers(Daemon)
    \/ StageGroups(Daemon)
    \/ Rotate(Daemon, FALSE)

\* The daemon is a running process: while it has a step to take it takes
\* one.
FairSpec == Init /\ [][RoundTripNext]_vars /\ WF_vars(RoundTripNext)

\* ---------------------------------------- specification: the lock alone

\* The with-body calls lock() on the lock object it already holds: lock()
\* starts with _lckpwdf(), whose "assert self._lckpwdf_fd is None" fails;
\* the rollback list of that call is still empty, the exception leaves the
\* with-body and __exit__ runs unlock().
Relock(p) ==
    /\ pc[p] = "body"
    /\ op[p] = "scope"
    /\ lckpwdf_fd[p] # "None"
    /\ BodyRaise(p, "AssertionError")
    /\ UNCHANGED <<fsVars, acctVars, objVars, op, started, fi, lock_pid,
                   attempts, sleeps, last, startLockf>>
    /\ UNCHANGED dbVars

\* The shadow utility that holds <f>.lock finishes and unlinks it.
HolderReleases(f) ==
    /\ lockf[f].ex
    /\ \E h \in HolderPids : lockf[f].text = NumStr(h)
    /\ lockf' = [lockf EXCEPT ![f] = NoLock]
    /\ UNCHANGED <<glock, pidf, linked, acctVars, objVars, ctlVars>>
    /\ UNCHANGED dbVars

\* The steps of the utility: with-statements on a ShadowDatabaseLock with
\* any timeout, the body being "pass" or a second lock().
UtilityNext ==
    \/ \E t \in LockTimeouts : StartScope(Utility, t)
    \/ Lckpwdf(Utility)
    \/ LockLoop(Utility)
    \/ Immediate(Utility)
    \/ Link(Utility)
    \/ ReadLock(Utility)
    \/ Kill(Utility)
    \/ UnlinkStale(Utility)
    \/ Stat(Utility)
    \/ Finally(Utility)
    \/ RetryCheck(Utility)
    \/ Rollback(Utility)
    \/ ScopeBody(Utility)
    \/ Relock(Utility)
    \/ Unlock(Utility)

\* The utility next to a shadow utility that may or may not release the lock
\* it holds.
LockNext ==
    \/ UtilityNext
    \/ \E f \in FileNames : HolderReleases(f)

LockInit == InitOf(InitLive, HeldLocks)

\* The utility is a running process: while it has a step to take it takes
\* one.  Nothing makes the shadow utility release its lock.
LockSpec == LockInit /\ [][LockNext]_vars /\ WF_vars(UtilityNext)

\* ----------------------------------------- specification: comparing records

\* Group.as_tuple: the fields of the GroupTuple, in the order of the tuple.
GroupKeys ==
    <<"group_name", "gid", "administrators", "members", "password",
      "modified">>

\* str < str for the password texts of GroupSamples, by code point.
PasswordOrder == <<"!", "x">>

PasswordPos(s) == CHOOSE i \in 1..Len(PasswordOrder) : PasswordOrder[i] = s

\* Two users.
SampleMembers == {"a", "b"}

\* Group(group_name, gid, administrators, members, password, modified) as a
\* caller builds it.
GroupSamples ==
    { [group_name |-> n, gid |-> g, administrators |-> ad, members |-> m,
       password |-> pw, modified |-> md] :
        n \in {"a"}, g \in {1, 2}, ad \in {{}, {"a"}},
        m \in SUBSET SampleMembers,
        pw \in {NoneStr} \cup Range(PasswordOrder), md \in BOOLEAN }

\* Group.__eq__: self.as_tuple == other.as_tuple.
Group_eq(a, b) ==
    IF \A i \in 1..Len(GroupKeys) : a[GroupKeys[i]] = b[GroupKeys[i]]
      THEN "True" ELSE "False"

\* Group.__lt__: self.as_tuple < other.as_tuple, the comparison of two
\* tuples: the first pair of fields that are not equal decides, by its own
\* <.  That is the order of the code points for two str, the proper subset
\* for two sets, unsupported between None and a str.
Group_lt(a, b) ==
    LET d == {i \in 1..Len(GroupKeys) : a[GroupKeys[i]] # b[GroupKeys[i]]}
    IN  IF d = {} THEN "False"
        ELSE LET k == GroupKeys[CHOOSE i \in d : \A j \in d : i <= j]
                 x == a[k]
                 y == b[k]
             IN  CASE k = "group_name" ->
                        IF NamePos(x) < NamePos(y) THEN "True" ELSE "False"
                   [] k = "gid" -> IF x < y THEN "True" ELSE "False"
                   [] k \in {"administrators", "members"} ->
                        IF x \subseteq y THEN "True" ELSE "False"
                   [] k = "password" ->
                        IF x = NoneStr \/ y = NoneStr THEN "TypeError"
                        ELSE IF PasswordPos(x) < PasswordPos(y) THEN "True"
                        ELSE "False"
                   [] k = "modified" -> IF y THEN "True" ELSE "False"

\* The comparisons a caller makes of the one record of the groups map with
\* another record.
Comparisons == {"a < b", "a == b", "b < a"}

Compare(a, b, which) ==
    CASE which = "a < b" -> Group_lt(a, b)
      [] which = "a == b" -> Group_eq(a, b)
      [] which = "b < a" -> Group_lt(b, a)

\* One comparison: its answer is kept in last, a TypeError in exc.
CompareGroups(p, other, which) ==
    LET r == Compare(groups[1], other, which)
    IN  /\ p = Daemon
        /\ pc[p] = "idle"
        /\ Len(groups) = 1
        /\ started[p] < Budget(p)
        /\ started' = [started EXCEPT ![p] = @ + 1]
        /\ op' = [op EXCEPT ![p] = which]
        /\ last' = [last EXCEPT ![p] = IF r = "TypeError" THEN "raised" ELSE r]
        /\ exc' = [exc EXCEPT ![p] = IF r = "TypeError" THEN r ELSE ""]
        /\ UNCHANGED <<fsVars, acctVars, objVars, pc, fi, lock_pid, attempts,
                       sleeps, startLockf, dbVars>>

\* A database whose groups map holds one record of GroupSamples.
OrderInit ==
    /\ glock = 0
    /\ lockf = [f \in FileNames |-> NoLock]
    /\ pidf = [p \in Procs |-> [f \in FileNames |-> FALSE]]
    /\ linked = [p \in Procs |-> [f \in FileNames |-> FALSE]]
    /\ live = PlainFiles
    /\ plus = [f \in FileNames |-> NoFile]
    /\ minus = [f \in FileNames |-> NoFile]
    /\ lock_count = [p \in Procs |-> 0]
    /\ lckpwdf_fd = [p \in Procs |-> "None"]
    /\ timeout = [p \in Procs |-> NONE]
    /\ rollback = [p \in Procs |-> <<>>]
    /\ pc = [p \in Procs |-> "idle"]
    /\ op = [p \in Procs |-> "none"]
    /\ started = [p \in Procs |-> 0]
    /\ fi = [p \in Procs |-> 1]
    /\ exc = [p \in Procs |-> ""]
    /\ lock_pid = [p \in Procs |-> 0]
    /\ attempts = [p \in Procs |-> 0]
    /\ sleeps = [p \in Procs |-> 0]
    /\ last = [p \in Procs |-> "none"]
    /\ startLockf = [p \in Procs |-> lockf]
    /\ users = <<>>
    /\ userKeys = <<>>
    /\ \E g \in GroupSamples : groups = <<g>> /\ groupKeys = <<g.group_name>>
    /\ constructed = TRUE
    /\ preLive = live
    /\ clearedUsers = {}
    /\ clearedGroups = {}
    /\ log = <<>>

OrderSpec ==
    OrderInit /\ [][\E other \in GroupSamples, which \in Comparisons :
                      CompareGroups(Daemon, other, which)]_vars

\* ------------------------------------------------------------- properties

\* The operations that enter a ShadowDatabaseLock scope.
LockOps == {"scope", "reload", "write", "full_update"}

\* p is between a successful lock() and the end of the matching unlock().
Held(p) ==
    pc[p] \in {"body", "load", "stage_users", "stage_groups", "rotate",
               "unlock"}

\* p is inside the with-body of reload() or write(), where the account
\* files are read or changed.
InBody(p) == pc[p] \in {"load", "stage_users", "stage_groups", "rotate"}

\* ShadowDatabase.modified
modified ==
    \/ \E i \in 1..Len(users) : users[i].modified
    \/ \E i \in 1..Len(groups) : groups[i].modified

WriteReturned ==
    pc[Daemon] = "idle" /\ op[Daemon] = "write" /\ last[Daemon] = "ok"

WriteFailed ==
    pc[Daemon] = "idle" /\ op[Daemon] = "write" /\ last[Daemon] = "raised"

HasLine(file, line) ==
    file.ex /\ \E k \in 1..Len(file.lines) : file.lines[k] = line

\* C1: after a process has entered and left a ShadowDatabaseLock scope over
\* all four files, with no lock file present when it entered and the other
\* process never having locked, no <file>.lock and no <file>.<pid> exists.
C1_ScopeExitLeavesNoLockFiles ==
    \A p \in Procs :
        ( /\ pc[p] = "idle"
          /\ op[p] \in LockOps
          /\ last[p] = "ok"
          /\ \A f \in FileNames : ~startLockf[p][f].ex
          /\ \A q \in Procs \ {p} : started[q] = 0 )
        => \A f \in FileNames :
              ~lockf[f].ex /\ \A q \in Procs : ~pidf[q][f]

\* C2: two processes that follow the lock protocol are never both between
\* a successful lock() and its matching unlock(), also when a stale
\* <file>.lock of a dead process was there at the start.
C2_MutualExclusion ==
    \A p, q \in Procs : p # q => ~(Held(p) /\ Held(q))

C2_Witness ==
    \E p, q \in Procs :
        /\ p # q
        /\ Held(p)
        /\ pc[q] = "rollback" /\ exc[q] = "EINTR"
        /\ \E f \in FileNames, d \in DeadPids :
              startLockf[p][f] = LockText(NumStr(d))

\* C3: whenever reload() or write() is reading or changing the account
\* files, the process holds the global shadow lock and every one of the four
\* <file>.lock files exists and holds its pid.
C3_BothTiersHeld ==
    \A p \in Procs :
        InBody(p) =>
          /\ glock = p
          /\ \A f \in FileNames : lockf[f] = LockText(NumStr(p))

\* C4: after write() has returned successfully every live file exists and
\* holds what write() staged from the in-memory records, and <file>- holds
\* what was live before the call.
C4_WriteInstallsStagedContent ==
    WriteReturned =>
      \A f \in FileNames :
          /\ live[f] = File(staged_lines(f, users, groups))
          /\ minus[f] = preLive[f]

\* C5: after write() has returned successfully no staging file <file>+
\* exists and a backup <file>- exists for every file that was overwritten.
C5_NoStagingFilesAfterWrite ==
    WriteReturned =>
      \A f \in FileNames :
          /\ ~plus[f].ex
          /\ preLive[f].ex => minus[f].ex

C5_Witness ==
    /\ WriteReturned
    /\ \A f \in FileNames : preLive[f].ex
    /\ Len(users) > 0

\* What reload() loads from a set of account files into an empty database.
LoadedUsers(files) ==
    load_shadow_file(load_passwd_file(<<>>, files["passwd"].lines),
                     files["shadow"].lines).users

LoadedGroups(files) ==
    load_gshadow_file(load_group_file(<<>>, files["group"].lines),
                      files["gshadow"].lines)

\* The records of a dict, each with its modified flag dropped.
Records(recs) == {ClearModified(recs[i]) : i \in 1..Len(recs)}

\* reload(); write(); reload() has returned with the records of the first
\* reload, none of them modified.
RoundTripDone ==
    /\ pc[Daemon] = "idle"
    /\ started[Daemon] = 3
    /\ op[Daemon] = "reload"
    /\ last[Daemon] = "ok"
    /\ Records(users) = Records(LoadedUsers(PlainFiles))
    /\ Records(groups) = Records(LoadedGroups(PlainFiles))
    /\ ~modified

\* C6: for well-formed account files, once reload() has returned and
\* write() is called, the round trip reload(); write(); reload() completes
\* and yields the users and groups of the first reload, every attribute
\* equal and modified false on every record.
C6_RoundTrip ==
    ( /\ live = PlainFiles
      /\ started[Daemon] = 2
      /\ op[Daemon] = "write"
      /\ pc[Daemon] = "lckpwdf" )
    ~> RoundTripDone

\* C7: after write() has returned successfully every user and every group
\* record has modified = FALSE, so the database's modified property is
\* false.
C7_WriteClearsModified ==
    WriteReturned =>
      /\ \A i \in 1..Len(users) : ~users[i].modified
      /\ \A i \in 1..Len(groups) : ~groups[i].modified
      /\ ~modified

C7_Witness ==
    /\ WriteReturned
    /\ clearedUsers # {}
    /\ clearedGroups # {}

\* C8: in no reachable state has write() cleared a record's modified flag
\* while the live account files do not hold that record's lines.
C8_FilesChangeBeforeFlagsClear ==
    /\ \A i \in 1..Len(users) :
          (users[i].user_name \in clearedUsers /\ ~users[i].modified) =>
            /\ HasLine(live["passwd"], passwd_line(users[i]))
            /\ HasLine(live["shadow"], shadow_line(users[i]))
    /\ \A i \in 1..Len(groups) :
          (groups[i].group_name \in clearedGroups /\ ~groups[i].modified) =>
            /\ HasLine(live["group"], group_line(groups[i]))
            /\ HasLine(live["gshadow"], gshadow_line(groups[i]))

\* C9: when write() has failed, no staging file <file>+ exists and every
\* live file holds what it held before the call.
C9_FailedWriteLeavesNoTrace ==
    WriteFailed =>
      \A f \in FileNames : ~plus[f].ex /\ live[f] = preLive[f]

\* C10: a lock() with timeout 0 never sleeps and never tries a file twice;
\* when it has failed with EAGAIN against the <file>.lock of a live other
\* process it made one attempt, no <file>.<pid> of the caller exists, the
\* lock files are as they were and the global shadow lock is released.
C10_TimeoutZeroFailsOnce ==
    \A p \in Procs :
        timeout[p] = 0 =>
          /\ sleeps[p] = 0
          /\ attempts[p] <= 1
          /\ (pc[p] = "idle" /\ last[p] = "raised" /\ exc[p] = "EAGAIN") =>
                /\ attempts[p] = 1
                /\ \A f \in FileNames : ~pidf[p][f]
                /\ lockf = startLockf[p]
                /\ glock # p
                /\ lckpwdf_fd[p] = "None"

C10_Witness ==
    \E p \in Procs, q \in Procs :
        /\ p # q
        /\ timeout[p] = 0
        /\ pc[p] = "idle" /\ last[p] = "raised" /\ exc[p] = "EAGAIN"
        /\ lockf["passwd"] = LockText(NumStr(q))

\* The <file>.lock that p found when it took the global lock was left by a
\* dead process.
FoundStale(p, f) ==
    \E d \in DeadPids : startLockf[p][f] = LockText(NumStr(d))

\* C11: when <file>.lock holds the pid of a dead process, the acquisition
\* unlinks it, links again and ends without an error, with <file>.lock
\* holding the pid of the acquiring process.
C11_StaleLockHealed ==
    \A p \in Procs :
        (pc[p] = "finally" /\ FoundStale(p, CurFile(p))) =>
          /\ exc[p] = ""
          /\ lockf[CurFile(p)] = LockText(NumStr(p))

\* ------------------------------------------------------- properties: Daemon

FullUpdateReturned ==
    /\ pc[Daemon] = "idle"
    /\ op[Daemon] = "full_update"
    /\ last[Daemon] = "ok"

\* The file exists and has a line for the name.
NamedIn(file, name) ==
    file.ex /\ \E k \in 1..Len(file.lines) : file.lines[k][1] = name

\* The keys of the two maps.
UserNames(us) == {us[i].user_name : i \in 1..Len(us)}

GroupNames(gs) == {gs[i].group_name : i \in 1..Len(gs)}

\* C12: full_update removes no entry from the user or the group map, and
\* when it has returned every user and group of the maps, which hold all
\* that were there before, has its line in the account files.
C12_MergeOnly ==
    FullUpdateReturned =>
      /\ \A n \in UserNames(users) :
             NamedIn(live["passwd"], n) /\ NamedIn(live["shadow"], n)
      /\ \A n \in GroupNames(groups) :
             NamedIn(live["group"], n) /\ NamedIn(live["gshadow"], n)

\* C13: a full_update step leaves every name of the snapshot as a key of the
\* corresponding map: the record with that name was updated in place, or a
\* new one was constructed with modified = TRUE and inserted.
C13_SnapshotNamesMerged ==
    [][\A snap \in Snapshots :
         FullUpdate(Daemon, snap) =>
           /\ \A k \in 1..Len(snap.users) :
                  snap.users[k].Name \in UserNames(users')
           /\ \A k \in 1..Len(snap.groups) :
                  snap.groups[k].Name \in GroupNames(groups')]_vars

\* C14: full_update enters write() only when the merge of the snapshot left
\* at least one record modified.
C14_WriteOnlyWhenModified ==
    [][\A snap \in Snapshots :
         (FullUpdate(Daemon, snap) /\ pc'[Daemon] # "idle") =>
           modified']_vars

\* C15: update_from_dynamodb_item with an item whose Name is not the name of
\* the record raises the error of the name check and leaves the record as
\* it was.
C15_NameIsImmutable ==
    [][/\ \A i \in 1..Len(users), item \in UserItems :
            (UpdateUser(Daemon, i, item)
               /\ item.Name # users[i].user_name) =>
              exc'[Daemon] = "ValueError" /\ users' = users
       /\ \A i \in 1..Len(groups), item \in GroupItems :
            (UpdateGroup(Daemon, i, item)
               /\ item.Name # groups[i].group_name) =>
              exc'[Daemon] = "ValueError" /\ groups' = groups]_vars

\* C16: an assignment through the uid or gid setter that stores a value
\* different from the current one sets modified, and one that stores the
\* same value leaves modified as it was.
C16_SetterRaisesModified ==
    [][/\ \A i \in 1..Len(users), v \in NewIds :
            (SetUid(Daemon, i, v) /\ exc'[Daemon] = "") =>
              users'[i].modified = (users[i].modified \/ users[i].uid # v)
       /\ \A i \in 1..Len(groups), v \in NewIds :
            (SetGid(Daemon, i, v) /\ exc'[Daemon] = "") =>
              groups'[i].modified =
                (groups[i].modified \/ groups[i].gid # v)]_vars

\* The lines, whose third field is the id, ascend by id and, for equal ids,
\* by name.
AscendingByIdThenName(lines) ==
    \A k, l \in 1..Len(lines) :
        k < l =>
          \/ IntOf(lines[k][3]) < IntOf(lines[l][3])
          \/ /\ IntOf(lines[k][3]) = IntOf(lines[l][3])
             /\ NamePos(lines[k][1]) < NamePos(lines[l][1])

\* The two files list the same names in the same order.
SameNameOrder(a, b) ==
    /\ Len(a) = Len(b)
    /\ \A k \in 1..Len(a) : a[k][1] = b[k][1]

\* C17: when write() has staged the four files, passwd+ ascends by uid and
\* group+ by gid, records with the same id are in name order, and shadow+
\* and gshadow+ follow the order of passwd+ and group+.
C17_OutputOrder ==
    (pc[Daemon] = "rotate" /\ exc[Daemon] = "") =>
      /\ AscendingByIdThenName(plus["passwd"].lines)
      /\ AscendingByIdThenName(plus["group"].lines)
      /\ SameNameOrder(plus["passwd"].lines, plus["shadow"].lines)
      /\ SameNameOrder(plus["group"].lines, plus["gshadow"].lines)

\* reload() has run its loaders and still holds the lock: the account files
\* are those the loaders read.
Loaded == pc[Daemon] = "unlock" /\ op[Daemon] = "reload"

\* The texts of the name and password fields of the lines of a file.
SecretTexts(file) ==
    UNION { {file.lines[k][j] : j \in (1..2) \cap (1..Len(file.lines[k]))} :
              k \in 1..Len(file.lines) }

\* No argument of a diagnostic of the shadow and gshadow loaders is a text
\* taken from a line of those files.
LogsCarryNoLineText ==
    Loaded =>
      \A k \in 1..Len(log) :
          \A j \in 1..Len(log[k].strs) :
              log[k].strs[j] \notin
                  SecretTexts(live["shadow"]) \cup SecretTexts(live["gshadow"])

\* C18: a diagnostic of the shadow or gshadow loader carries no text of the
\* line, whatever the line holds, and names the line by the file and the
\* 1-based number of the line and by nothing else.
C18_DiagnosticsNameFileAndLineOnly ==
    Loaded =>
      \A k \in 1..Len(log) :
          /\ \A j \in 1..Len(log[k].strs) :
                 log[k].strs[j] \notin
                     SecretTexts(live["shadow"])
                       \cup SecretTexts(live["gshadow"])
          /\ log[k].strs \in {<<SHADOW_FILE>>, <<GSHADOW_FILE>>}
          /\ log[k].ints = <<log[k].line_no>>

\* A shadow line with 8 or 9 fields, a clean password and numeric fields
\* that are empty or decimal.
WellFormedShadow(parts) ==
    /\ 8 <= Len(parts) /\ Len(parts) <= 9
    /\ FIELD_PATTERN_match(parts[2])
    /\ \A j \in 3..8 : parts[j] = "" \/ IsInt(parts[j])

\* C19: after reload() a user with a well-formed shadow line holds each
\* numeric field of the line as that number (the two dates as that many
\* days after 1970-01-01), an empty field as None, and is not marked
\* modified when its passwd line needed no repair.
C19_ShadowLoadFidelity ==
    (Loaded /\ exc[Daemon] = "") =>
      \A k \in 1..Len(live["shadow"].lines) :
          LET parts == live["shadow"].lines[k]
              i == UserIndex(users, parts[1]) IN
          (WellFormedShadow(parts) /\ i # 0) =>
            /\ \A j \in 1..Len(shadow_fields) :
                   users[i][shadow_fields[j]] =
                       IF parts[j + 2] = "" THEN NONE ELSE IntOf(parts[j + 2])
            /\ live["passwd"] = PlainFiles["passwd"] => ~users[i].modified

\* A passwd line with valid name, uid and gid whose home FIELD_PATTERN
\* rejects.
BadHomeLine(parts) ==
    /\ Len(parts) = 7
    /\ NAME_PATTERN_match(parts[1])
    /\ ValidId(parts[3], UID_MIN, UID_MAX)
    /\ ValidId(parts[4], GID_MIN, GID_MAX)
    /\ parts[6] \in BadFieldTexts

C21_CycleReachesWrite ==
    [][\A snap \in Snapshots :
         FullUpdate(Daemon, snap) =>
           /\ exc'[Daemon] = ""
           /\ pc'[Daemon] = "lckpwdf"]_vars

\* ---------------------------------------------- properties: the lock alone

\* C22: the owner of a lock may nest acquisitions: a lock() on a lock object
\* that is already held succeeds without raising and only increments the
\* counter of the object.
C22_NestedLockCounts ==
    [][Relock(Utility) =>
         /\ exc'[Utility] = ""
         /\ lock_count'[Utility] = lock_count[Utility] + 1]_vars

\* p is inside lock(), after _lckpwdf() has returned.
Locking(p) ==
    pc[p] \in {"lock_file", "immediate", "link", "read_lock", "kill",
               "unlink_stale", "stat", "finally", "retry_check"}

\* C23: lock() takes the global shadow lock first and then runs the pidlock
\* protocol file by file in the order passwd, group, gshadow, shadow: while
\* lock() works on one file the process holds the global lock, the
\* <file>.lock of every file before it in that order exists and holds its
\* pid, and it has taken none of the files after it.
C23_LockOrder ==
    \A p \in Procs :
        Locking(p) =>
          /\ glock = p
          /\ \A j \in 1..Len(lock_order) :
                /\ j < fi[p] => lockf[lock_order[j]] = LockText(NumStr(p))
                /\ j > fi[p] => lockf[lock_order[j]] # LockText(NumStr(p))

C25_UnlockAlwaysReleasesGlobal ==
    [][\A p \in Procs :
         Unlock(p) =>
           /\ lock_count'[p] \in {0, 1}
           /\ glock' # p
           /\ lckpwdf_fd'[p] = "None"
           /\ exc'[p] = exc[p]
           /\ last'[p] = IF exc[p] = "" THEN "ok" ELSE "raised"]_vars

\* A with-statement has ended normally although the release of /etc/passwd
\* failed: the lock file still holds the pid, the shadow lock is free.
C25_Witness ==
    \E p \in Procs :
        /\ pc[p] = "idle"
        /\ op[p] = "scope"
        /\ last[p] = "ok"
        /\ lock_count[p] = 1
        /\ lockf[lock_order[1]] = LockText(NumStr(p))
        /\ glock # p

\* C26: the release validates ownership through <file>.lock: an unlock()
\* unlinks /etc/passwd.lock exactly when that file holds the pid of the
\* process, and leaves every lock file as it is otherwise.
C26_ReleaseChecksLockFile ==
    [][\A p \in Procs :
         Unlock(p) =>
           IF lockf[lock_order[1]] = LockText(NumStr(p))
             THEN ~lockf'[lock_order[1]].ex
             ELSE lockf' = lockf]_vars

\* C27: whatever the timeout, an attempt of _lock_file that fails with an
\* error other than EAGAIN is not repeated: the error is raised to lock() at
\* once, without a sleep and without another attempt; when nothing was slept
\* before, it is raised after exactly one attempt.
C27_OtherErrorsNotRetried ==
    [][\A p \in Procs :
         (RetryCheck(p) /\ exc[p] # "EAGAIN") =>
           /\ pc'[p] = "rollback"
           /\ exc'[p] = exc[p]
           /\ sleeps'[p] = sleeps[p]
           /\ attempts'[p] = attempts[p]
           /\ sleeps[p] = 0 => attempts[p] = 1]_vars

\* lock() with timeout None is about to roll back after one attempt on
\* /etc/passwd that failed with EIO, not having slept.
C27_Witness ==
    \E p \in Procs :
        /\ pc[p] = "rollback"
        /\ timeout[p] = NONE
        /\ exc[p] = "EIO"
        /\ attempts[p] = 1
        /\ sleeps[p] = 0

\* <f>.lock holds the pid of a live process.
HeldByLive(f) ==
    /\ lockf[f].ex
    /\ \E h \in AlivePids : lockf[f].text = NumStr(h)

\* lock() of the utility has raised EAGAIN to its caller.
GaveUpWaiting ==
    /\ pc[Utility] = "idle"
    /\ last[Utility] = "raised"
    /\ exc[Utility] = "EAGAIN"

\* C28: with a positive timeout an attempt that met a live holder is
\* repeated, and unless the holder lets go the call ends by raising EAGAIN;
\* with timeout None or a negative one EAGAIN never ends the call, and an
\* attempt that starts when the lock file is gone takes the lock.
C28_TimeoutBehaviour ==
    /\ ( /\ timeout[Utility] > 0
         /\ pc[Utility] = "retry_check"
         /\ exc[Utility] = "EAGAIN" )
         ~> (GaveUpWaiting \/ ~HeldByLive(lock_order[1]))
    /\ [][( /\ RetryCheck(Utility)
            /\ exc[Utility] = "EAGAIN"
            /\ timeout[Utility] < 0 )
          => /\ pc'[Utility] = "immediate"
             /\ exc'[Utility] = ""]_vars
    /\ ( /\ timeout[Utility] < 0
         /\ pc[Utility] = "immediate"
         /\ attempts[Utility] > 0
         /\ ~lockf[CurFile(Utility)].ex )
         ~> (lock_count[Utility] > 0)

\* A lock() with a positive timeout has slept, tried again and then raised
\* EAGAIN, the holder still being there.
C28_Witness ==
    /\ GaveUpWaiting
    /\ timeout[Utility] > 0
    /\ sleeps[Utility] > 0
    /\ attempts[Utility] > 1
    /\ HeldByLive(lock_order[1])

\* The text of <f>.lock is no pid.
Unparseable(f) == lockf[f].ex /\ ~IsInt(lockf[f].text)

\* C29, as stated: a <file>.lock whose content is no pid is treated like the
\* lock of a dead holder: having read it, _lock_file_immediate goes on to
\* unlink it and to link again.
C29_UnparseableLockIsStale ==
    [][\A p \in Procs :
         ( /\ ReadLock(p)
           /\ lockf[CurFile(p)].ex
           /\ ~IsInt(lockf[CurFile(p)].text) )
         => /\ exc'[p] = ""
            /\ pc'[p] = "unlink_stale"]_vars


\* C29, amended: a <file>.lock whose content is no pid makes the attempt
\* fail with EIO as soon as it is read; nothing unlinks or rewrites the file,
\* so every later lock() fails on it in the same way.
C29_UnparseableLockFails ==
    /\ [][\A p \in Procs :
            (ReadLock(p) /\ Unparseable(CurFile(p))) =>
              /\ exc'[p] = "EIO"
              /\ pc'[p] = "finally"]_vars
    /\ [][\A f \in FileNames :
            Unparseable(f) => lockf'[f] = lockf[f]]_vars

\* lock() has failed with EIO after one attempt on an /etc/passwd.lock that
\* holds no pid, and the file is still there.
C29_Witness ==
    /\ pc[Utility] = "idle"
    /\ last[Utility] = "raised"
    /\ exc[Utility] = "EIO"
    /\ attempts[Utility] = 1
    /\ Unparseable(lock_order[1])

\* C30: reload() empties and fills the user and group maps only inside its
\* with-block: a step of reload() that changes a map is taken while the
\* daemon holds the shadow lock and is in the body of the with-statement.
C30_ReloadChangesMapsUnderLock ==
    [][( /\ op'[Daemon] = "reload"
         /\ users' # users \/ groups' # groups )
       => /\ glock = Daemon
          /\ pc[Daemon] = "load"]_vars

\* ------------------------------------------------- properties: rotation

\* C31: write() rotates the files in the order in which the locks are
\* taken, passwd, group, gshadow, shadow: while _rotate_files is running,
\* the staging files already consumed are those of an initial stretch of
\* that order.
C31_RotationInLockOrder ==
    \A p \in Procs :
        pc[p] = "rotate" =>
          \E n \in 0..Len(lock_order) :
            \A j \in 1..Len(lock_order) :
                plus[lock_order[j]].ex <=> j > n

\* C32: at every point of write(), from staging to the end of the rotation,
\* each live file exists and holds either all of what it held when write()
\* was called or all of what write() staged for it.
C32_LiveFileOldOrNew ==
    \A p \in Procs :
        (op[p] \in {"write", "full_update"} /\ (InBody(p) \/ pc[p] = "unlock"))
        => \A f \in FileNames :
              /\ live[f].ex
              /\ \/ live[f] = preLive[f]
                 \/ live[f] = File(staged_lines(f, users, groups))

\* Neither staging file of the pair exists.
PairGone(f1, f2) == ~plus[f1].ex /\ ~plus[f2].ex

\* Both staging files of the pair exist and hold every line staged for them.
PairComplete(f1, f2) ==
    \A f \in {f1, f2} : plus[f] = File(staged_lines(f, users, groups))

\* C33: when the staging of a pair (passwd+ with shadow+, group+ with
\* gshadow+) meets an error, the error leaves the staging function and
\* neither staging file of the pair exists; otherwise both files are there,
\* complete, for the rotation.
C33_StagingPairAllOrNothing ==
    [][\A p \in Procs :
         /\ (pc[p] = "stage_users" /\ pc'[p] # "stage_users") =>
              IF exc'[p] # "" THEN PairGone("passwd", "shadow")'
              ELSE PairComplete("passwd", "shadow")'
         /\ (pc[p] = "stage_groups" /\ pc'[p] # "stage_groups") =>
              IF exc'[p] # "" THEN PairGone("group", "gshadow")'
              ELSE PairComplete("group", "gshadow")']_vars

\* ------------------------------------------------- properties: records

\* The item carries, attribute by attribute, what the user record holds.
EqualUserItem(u, item) ==
    /\ HasAttr(item, "UserName") /\ item.UserName = u.user_name
    /\ IsInt(item.UID) /\ IntOf(item.UID) = u.uid
    /\ IsInt(item.GID) /\ IntOf(item.GID) = u.gid
    /\ item.RealName = u.real_name
    /\ item.Home = u.home
    /\ item.Shell = u.shell
    /\ \A k \in 1..Len(OptionalUserAttrs) :
          /\ ~HasAttr(item, OptionalUserAttrs[k][1])
          /\ u[OptionalUserAttrs[k][2]] = NoneOf(OptionalUserAttrs[k][2])

\* C34: update_from_dynamodb_item with an item that carries the name of the
\* record returns without an error, and with an item equal to the record in
\* every field it leaves the record, its modified flag included, as it was.
C34_UpdateChangesWhatDiffers ==
    [][\A i \in 1..Len(users), item \in UserItems :
         ( /\ UpdateUser(Daemon, i, item)
           /\ HasAttr(item, "UserName")
           /\ item.UserName = users[i].user_name )
         => /\ exc'[Daemon] = ""
            /\ EqualUserItem(users[i], item) => users' = users]_vars

\* C35: after reload() each user holds the password hash of its shadow line
\* and each group that of its gshadow line, whenever FIELD_PATTERN accepts
\* the hash.
C35_PasswordHashLoaded ==
    (Loaded /\ exc[Daemon] = "") =>
      /\ \A k \in 1..Len(live["shadow"].lines) :
            LET parts == live["shadow"].lines[k]
                i == UserIndex(users, parts[1]) IN
            (Len(parts) = 9 /\ i # 0 /\ FIELD_PATTERN_match(parts[2])) =>
              users[i].password = parts[2]
      /\ \A k \in 1..Len(live["gshadow"].lines) :
            LET parts == live["gshadow"].lines[k]
                i == GroupIndex(groups, parts[1]) IN
            (Len(parts) = 4 /\ i # 0 /\ FIELD_PATTERN_match(parts[2])) =>
              groups[i].password = parts[2]

\* ------------------------------------------- properties: comparing records

\* Exactly one of a < b, a == b and b < a is true, and none of them raises.
ExactlyOne(a, b) ==
    /\ \A w \in Comparisons : Compare(a, b, w) \in {"True", "False"}
    /\ Cardinality({w \in Comparisons : Compare(a, b, w) = "True"}) = 1

\* The two records agree in every field but members and administrators.
SetsApart(a, b) ==
    \A i \in 1..Len(GroupKeys) :
        GroupKeys[i] \notin {"administrators", "members"}
          => a[GroupKeys[i]] = b[GroupKeys[i]]

\* C36: for the record a of the groups map and any record b a caller
\* compares it with, exactly one of a < b, a == b and b < a holds when the
\* two differ at most in their members or administrators.
C36_TotalOrder ==
    [][\A other \in GroupSamples, which \in Comparisons :
         CompareGroups(Daemon, other, which) /\ SetsApart(groups[1], other)
           => ExactlyOne(groups[1], other)]_vars

\* --------------------------------------------------- properties: map keys

\* Every key of the map is the name of the record stored under it.
KeysAreNames(keys, recs, f) ==
    /\ Len(keys) = Len(recs)
    /\ \A i \in 1..Len(recs) : keys[i] = recs[i][f]

\* C37: in every state, so after any sequence of reload() and full_update()
\* calls, each key of the users map is the name of the User stored under it
\* and each key of the groups map is the name of the Group stored under it.
C37_KeysAreNames ==
    /\ KeysAreNames(userKeys, users, "user_name")
    /\ KeysAreNames(groupKeys, groups, "group_name")

\* full_update has run on maps that reload() filled.
C37_Witness ==
    /\ pc[Daemon] = "idle"
    /\ op[Daemon] = "full_update"
    /\ userKeys # <<>>
    /\ groupKeys # <<>>

\* ------------------------------------------- properties: release on error

\* C38: when the with-body of reload() or write() has raised, the unlock()
\* of __exit__ leaves no <file>.lock holding the pid of the process and none
\* of its pid files, the shadow lock is not held by it, and the error of the
\* body is the one the caller gets.
C38_BodyErrorReleasesAll ==
    [][(Unlock(Daemon) /\ exc[Daemon] # "") =>
         /\ glock' # Daemon
         /\ exc'[Daemon] = exc[Daemon]
         /\ last'[Daemon] = "raised"
         /\ \A f \in FileNames :
               /\ lockf'[f] # LockText(NumStr(Daemon))
               /\ ~pidf'[Daemon][f]]_vars

\* ------------------------------------------- properties: taking the lock again

\* No <file>.lock is there that another process has left.
NoForeignLock ==
    \A f \in FileNames : lockf[f].ex => lockf[f] = LockText(NumStr(Daemon))

\* C39: with no lock of another process around, every reload() and write()
\* the daemon starts, each on a lock object of its own with the default
\* timeout, gets the lock, and every call that has the lock ends.
C39_ReleasedLockTakenAgain ==
    /\ (pc[Daemon] = "lckpwdf" /\ NoForeignLock) ~> Held(Daemon)
    /\ Held(Daemon) ~> (pc[Daemon] = "idle")

=============================================================================
